---- MODULE Spec2Model ----
(***************************************************************************)
(* A model of port-my-ai-history: the conversation tree parser             *)
(* (parser.py), the content normaliser (parser.py, _parse_content) and the *)
(* visibility filter (renderer.py, visible_messages).                      *)
(*                                                                         *)
(* Representation.                                                         *)
(*  - A Python dict is a function; a key that is absent from the dict is   *)
(*    absent from its DOMAIN, and Get models dict.get(key, default).       *)
(*  - A Python str that the code trims, slices or joins is a sequence of   *)
(*    one-character strings; a str that the code only compares or copies   *)
(*    (ids, roles, type tags, url, domain, language) is a TLA+ string.     *)
(*  - None and "" are both falsy: an absent id is NoId.                    *)
(*  - An optional number is <<>> (None) or <<n>>.                          *)
(*  - A Message is an object of the heap: conv.messages and the list that  *)
(*    visible_messages returns hold addresses, so that the model tells a   *)
(*    new Message from an input Message that was written to.               *)
(***************************************************************************)
EXTENDS Integers, Sequences, FiniteSets, TLC

VARIABLES
    raw,               \* the raw export record being parsed
    pc,                \* the position of the caller
    trav,              \* _traverse_to_root: path, node_id, visited, and whether the loop ended
    heap,              \* the Message objects, by address
    conv,              \* the Conversation that parse_conversation returned
    include_thoughts,  \* the argument of visible_messages
    result,            \* the list that visible_messages returned
    raw_content,       \* the raw content dict handed to _parse_content
    items,             \* the list that _parse_content returned
    files,             \* the paths that export_dir.rglob("*") enumerates, in its order
    index,             \* ImageResolver._index
    pointer,           \* the argument of resolve
    resolved,          \* what resolve returned: <<>> for None, <<p>> for the path p
    rendered,          \* the image references of the render handed to the resolver so far
    writes,            \* the assignments made to resolved_path, by reference
    scan,              \* cli.py scan: the existing manifest, the new entries, what is written
    gen,               \* cli.py generate: the archive, the included ids, the loop and its counts
    batch,             \* categorize_batch: its arguments, its retry loop and its result
    cat                \* categorize_entries: the entries, the two passes and the summary

\* the state of the content normaliser called on its own
contentVars == <<raw_content, items>>

\* the state of the image resolver and of a render that uses it
resolverVars == <<files, index, pointer, resolved, rendered, writes>>

\* the state of the commands around the parser and the renderers
cliVars == <<scan, gen, batch, cat>>

vars == <<raw, pc, trav, heap, conv, include_thoughts, result,
          contentVars, resolverVars, cliVars>>

(***************************************************************************)
(* Bounds of the model.                                                    *)
(***************************************************************************)
\* node ids of a raw record checked by the parse pipeline
MaxNodes == 2
\* node ids of a raw record whose parent links alone are walked
MaxTreeNodes == 3
\* blocks of a conversation handed to the visibility filter, over all messages
MaxBlocks == 3
\* parts of a raw content dict handed to the content normaliser
MaxParts == 3
\* paths that the walk of the export directory enumerates
MaxFiles == 2
\* entries of the existing manifest, and of a new scan
MaxScan == 2
\* records of the archive that generate loops over
MaxArchive == 3
\* items of an answer of the oracle to one categorization batch
MaxItems == 2
\* entries of the manifest that categorize_entries is given
MaxEntries == 2

(***************************************************************************)
(* Strings.                                                                *)
(***************************************************************************)
NoId == ""

Whitespace == {" ", "\n", "\t"}

Min(a, b) == IF a <= b THEN a ELSE b

\* str.strip(): leading and trailing whitespace removed
RECURSIVE LStrip(_)
LStrip(s) ==
    IF s # <<>> /\ Head(s) \in Whitespace THEN LStrip(Tail(s)) ELSE s

RECURSIVE RStrip(_)
RStrip(s) ==
    IF s # <<>> /\ s[Len(s)] \in Whitespace
    THEN RStrip(SubSeq(s, 1, Len(s) - 1))
    ELSE s

Strip(s) == RStrip(LStrip(s))

\* s[:n]
Take(s, n) == SubSeq(s, 1, Min(n, Len(s)))

\* s.startswith(p)
StartsWith(s, p) == Len(s) >= Len(p) /\ SubSeq(s, 1, Len(p)) = p

\* "\n".join(parts)
RECURSIVE JoinLines(_)
JoinLines(parts) ==
    IF parts = <<>> THEN <<>>
    ELSE IF Len(parts) = 1 THEN parts[1]
    ELSE parts[1] \o <<"\n">> \o JoinLines(Tail(parts))

Reverse(s) == [i \in 1..Len(s) |-> s[Len(s) + 1 - i]]

Range(f) == {f[i] : i \in DOMAIN f}

\* dict.get(key, default)
Get(d, key, default) == IF key \in DOMAIN d THEN d[key] ELSE default

\* dict.get(key): a key that is absent gives None, here the empty dict
EmptyDict == [k \in {} |-> 0]

Sediment == <<"s", "e", "d", "i", "m", "e", "n", "t", ":", "/", "/">>

(***************************************************************************)
(* models.py: the dataclasses, with their defaults.                        *)
(***************************************************************************)
ImageReference(asset_pointer, width, height, size_bytes, content_type) ==
    [asset_pointer |-> asset_pointer, width |-> width, height |-> height,
     size_bytes |-> size_bytes, resolved_path |-> <<>>,
     content_type |-> content_type]

ParsedContent(content_type, text, language, images, url, domain, thought_summary) ==
    [content_type |-> content_type, text |-> text, language |-> language,
     images |-> images, url |-> url, domain |-> domain,
     thought_summary |-> thought_summary]

\* ParsedContent(content_type=..., text=...)
TextContent(content_type, text) ==
    ParsedContent(content_type, text, "", <<>>, "", "", <<>>)

Message(id, role, content_type, content, model_slug, weight) ==
    [id |-> id, role |-> role, content_type |-> content_type,
     content |-> content, model_slug |-> model_slug, weight |-> weight]

(***************************************************************************)
(* parser.py: _parse_image_pointer.                                        *)
(***************************************************************************)
ParseImagePointer(part) ==
    ImageReference(Get(part, "asset_pointer", <<>>),
                   Get(part, "width", <<>>),
                   Get(part, "height", <<>>),
                   Get(part, "size_bytes", <<>>),
                   Get(part, "content_type", "image_asset_pointer"))

(***************************************************************************)
(* parser.py: _parse_content.  A part of "parts" is a str, a dict or       *)
(* something else: [kind |-> "str", s |-> ...], [kind |-> "dict",          *)
(* d |-> ...], [kind |-> "other"].                                         *)
(***************************************************************************)
\* [str(p) for p in parts if isinstance(p, str)]
RECURSIVE StrParts(_)
StrParts(parts) ==
    IF parts = <<>> THEN <<>>
    ELSE IF Head(parts).kind = "str"
         THEN <<Head(parts).s>> \o StrParts(Tail(parts))
         ELSE StrParts(Tail(parts))

\* MultimodalPart, were a string part not tested for blankness
MultimodalPart_KeepsBlank(part) ==
    IF part.kind = "str"
    THEN <<TextContent("text", part.s)>>
    ELSE IF part.kind = "dict"
         THEN IF Get(part.d, "content_type", "") = "image_asset_pointer"
              THEN <<ParsedContent("image", <<>>, "",
                                   <<ParseImagePointer(part.d)>>, "", "", <<>>)>>
              ELSE <<>>
         ELSE <<>>

\* one iteration of the loop over the parts of a multimodal_text content
MultimodalPart(part) ==
    IF part.kind = "str"
    THEN IF Strip(part.s) # <<>>
         THEN <<TextContent("text", part.s)>>
         ELSE <<>>
    ELSE IF part.kind = "dict"
         THEN IF Get(part.d, "content_type", "") = "image_asset_pointer"
              THEN <<ParsedContent("image", <<>>, "",
                                   <<ParseImagePointer(part.d)>>, "", "", <<>>)>>
              ELSE <<>>
         ELSE <<>>

RECURSIVE MultimodalItems(_)
MultimodalItems(parts) ==
    IF parts = <<>> THEN <<>>
    ELSE MultimodalPart(Head(parts)) \o MultimodalItems(Tail(parts))

\* one iteration of the loop over the thoughts of a thoughts content
ThoughtItem(thought) ==
    IF Strip(Get(thought, "content", <<>>)) # <<>>
    THEN <<ParsedContent("thoughts", Get(thought, "content", <<>>), "", <<>>,
                         "", "", Get(thought, "summary", <<>>))>>
    ELSE <<>>

RECURSIVE ThoughtItems(_)
ThoughtItems(thoughts) ==
    IF thoughts = <<>> THEN <<>>
    ELSE ThoughtItem(Head(thoughts)) \o ThoughtItems(Tail(thoughts))

\* the two fixed notes of a computer_output block, each one token long
ScreenshotMaybeNote ==
    <<"[Computer use screenshot - may not be available in export]">>

ScreenshotMissingNote ==
    <<"[Computer use screenshot - not available in export]">>

\* summary or result or ""
BrowsingText(content) ==
    IF Get(content, "summary", <<>>) # <<>> THEN content["summary"]
    ELSE IF Get(content, "result", <<>>) # <<>> THEN content["result"]
    ELSE <<>>

\* the fallback for an unknown content type
FallbackText(content) ==
    IF Get(content, "parts", <<>>) # <<>>
    THEN JoinLines(StrParts(content["parts"]))
    ELSE Get(content, "text", <<>>)

\* NormalizeLanguage, were the language copied as it is written
NormalizeLanguage_Copied(lang) == lang

\* language=lang if lang != "unknown" else ""
NormalizeLanguage(lang) == IF lang # "unknown" THEN lang ELSE ""

\* TetherQuoteItems, were a quote without text dropped as other blank blocks are
TetherQuoteItems_BlankDropped(content) ==
    IF Strip(Get(content, "text", <<>>)) = <<>> THEN <<>>
    ELSE <<ParsedContent("tether_quote", Get(content, "text", <<>>), "", <<>>,
                         Get(content, "url", ""), Get(content, "domain", ""),
                         <<>>)>>

\* the tether_quote arm: no test of the text
TetherQuoteItems(content) ==
    <<ParsedContent("tether_quote", Get(content, "text", <<>>), "", <<>>,
                    Get(content, "url", ""), Get(content, "domain", ""),
                    <<>>)>>

ParseContent(content) ==
    LET ct == Get(content, "content_type", "text") IN
    CASE ct = "text" ->
           LET text == JoinLines(StrParts(Get(content, "parts", <<>>))) IN
           IF Strip(text) = <<>> THEN <<>> ELSE <<TextContent("text", text)>>
      [] ct = "multimodal_text" ->
           MultimodalItems(Get(content, "parts", <<>>))
      [] ct = "code" ->
           LET text == Get(content, "text", <<>>)
               lang == Get(content, "language", "") IN
           IF Strip(text) = <<>> THEN <<>>
           ELSE <<ParsedContent("code", text, NormalizeLanguage(lang),
                                <<>>, "", "", <<>>)>>
      [] ct = "thoughts" ->
           ThoughtItems(Get(content, "thoughts", <<>>))
      [] ct = "reasoning_recap" ->
           LET text == Get(content, "content", <<>>) IN
           IF Strip(text) = <<>> THEN <<>>
           ELSE <<TextContent("reasoning_recap", text)>>
      [] ct = "execution_output" ->
           LET text == Get(content, "text", <<>>) IN
           IF Strip(text) = <<>> THEN <<>>
           ELSE <<TextContent("execution_output", text)>>
      [] ct = "tether_quote" ->
           TetherQuoteItems(content)
      [] ct = "tether_browsing_display" ->
           LET text == BrowsingText(content) IN
           IF Strip(text) = <<>> THEN <<>>
           ELSE <<TextContent("tether_browsing_display", text)>>
      [] ct = "computer_output" ->
           LET screenshot == Get(content, "screenshot", EmptyDict) IN
           IF DOMAIN screenshot # {}
              /\ StartsWith(Get(screenshot, "asset_pointer", <<>>), Sediment)
           THEN <<ParsedContent("computer_output", ScreenshotMaybeNote, "",
                                <<ParseImagePointer(screenshot)>>, "", "", <<>>)>>
           ELSE <<TextContent("computer_output", ScreenshotMissingNote)>>
      [] ct = "system_error" ->
           <<TextContent("system_error",
                         Get(content, "name", <<"E", "r", "r", "o", "r">>)
                           \o <<":", " ">> \o Get(content, "text", <<>>))>>
      [] ct = "user_editable_context" -> <<>>
      [] OTHER ->
           LET text == FallbackText(content) IN
           IF Strip(text) # <<>> THEN <<TextContent(ct, text)>> ELSE <<>>

(***************************************************************************)
(* parser.py: _parse_message.  NoMessage is the None it returns.  The      *)
(* create_time of a message is decoded from a timestamp and read by        *)
(* nothing but the renderers' output: it is left out.                      *)
(***************************************************************************)
NoMessage == [none |-> TRUE]

\* IsPruned, were the weight test left out
IsPruned_Never(weight) == FALSE

\* if weight == 0.0: return None
IsPruned(weight) == weight = 0

\* IsEmptyContent, were the test for no blocks left out
IsEmptyContent_Never(parsed) == FALSE

\* if not parsed: return None
IsEmptyContent(parsed) == parsed = <<>>

ParseMessage(node) ==
    IF "message" \notin DOMAIN node THEN NoMessage
    ELSE LET msg_data     == node["message"]
             role         == Get(Get(msg_data, "author", EmptyDict), "role", "unknown")
             weight       == Get(msg_data, "weight", 1)
             content_data == Get(msg_data, "content", EmptyDict)
             content_type == Get(content_data, "content_type", "text")
             parsed       == ParseContent(content_data)
             model_slug   == Get(Get(msg_data, "metadata", EmptyDict), "model_slug", "") IN
         IF IsPruned(weight) THEN NoMessage
         ELSE IF IsEmptyContent(parsed) THEN NoMessage
         ELSE Message(Get(node, "id", ""), role, content_type, parsed,
                      model_slug, weight)

(***************************************************************************)
(* parser.py: _traverse_to_root.  st is the state of the loop: the path    *)
(* recorded so far, the id to look at next, the visited set, and whether   *)
(* the loop has ended (by its condition or by its break).                  *)
(***************************************************************************)
TraverseStart(current_node) ==
    [path |-> <<>>, node_id |-> current_node, visited |-> {}, ended |-> FALSE]

\* TraverseCond, were the visited set not consulted
TraverseCond_NoCycleGuard(st) == st.node_id # NoId

\* while node_id and node_id not in visited
TraverseCond(st) == st.node_id # NoId /\ st.node_id \notin st.visited

\* TraverseIter, were the recorded id put in front of the path
TraverseIter_Prepend(mapping, st) ==
    IF TraverseCond(st)
    THEN [path    |-> <<st.node_id>> \o st.path,
          visited |-> st.visited \cup {st.node_id},
          node_id |-> IF st.node_id \in DOMAIN mapping
                      THEN Get(mapping[st.node_id], "parent", NoId)
                      ELSE st.node_id,
          ended   |-> st.node_id \notin DOMAIN mapping]
    ELSE [st EXCEPT !.ended = TRUE]

\* one pass through the loop: its body when the condition holds, its end otherwise
TraverseIter(mapping, st) ==
    IF TraverseCond(st)
    THEN [path    |-> Append(st.path, st.node_id),
          visited |-> st.visited \cup {st.node_id},
          node_id |-> IF st.node_id \in DOMAIN mapping
                      THEN Get(mapping[st.node_id], "parent", NoId)
                      ELSE st.node_id,
          ended   |-> st.node_id \notin DOMAIN mapping]
    ELSE [st EXCEPT !.ended = TRUE]

RECURSIVE TraverseLoop(_, _)
TraverseLoop(mapping, st) ==
    IF st.ended THEN st ELSE TraverseLoop(mapping, TraverseIter(mapping, st))

\* TraverseToRoot, were the recorded path returned leaf first
TraverseToRoot_NotReversed(mapping, current_node) ==
    TraverseLoop(mapping, TraverseStart(current_node)).path

TraverseToRoot(mapping, current_node) ==
    Reverse(TraverseLoop(mapping, TraverseStart(current_node)).path)

(***************************************************************************)
(* parser.py: parse_conversation.  st is the state of the loop over the    *)
(* node path: the heap of Message objects, the list of the retained ones   *)
(* and the preview.  The timestamps of the record are decoded and copied   *)
(* and read by no step of the parse: they are left out.                    *)
(***************************************************************************)
\* the length of the preview
PreviewLen == 200

\* for pc in msg.content: if pc.content_type == "text" and pc.text.strip(): ... break
RECURSIVE FirstTextPreview(_)
FirstTextPreview(content) ==
    IF content = <<>> THEN <<>>
    ELSE IF Head(content).content_type = "text" /\ Strip(Head(content).text) # <<>>
         THEN Take(Strip(Head(content).text), PreviewLen)
         ELSE FirstTextPreview(Tail(content))

\* SkipLeadingSystem, were every system message skipped
SkipLeadingSystem_All(msg, messages) == msg.role = "system"

\* if msg.role == "system" and not messages: continue
SkipLeadingSystem(msg, messages) == msg.role = "system" /\ messages = <<>>

\* if msg.role == "user" and not first_user_msg: ...
UpdatePreview(msg, first_user_msg) ==
    IF msg.role = "user" /\ first_user_msg = <<>>
    THEN FirstTextPreview(msg.content)
    ELSE first_user_msg

ParseStart == [heap |-> <<>>, messages |-> <<>>, first_user_msg |-> <<>>]

\* the body of the loop, for one node id of the path
ParseIter(mapping, st, node_id) ==
    LET node == Get(mapping, node_id, EmptyDict)
        msg  == ParseMessage(node) IN
    IF msg = NoMessage THEN st
    ELSE IF SkipLeadingSystem(msg, st.messages) THEN st
    ELSE [heap           |-> Append(st.heap, msg),
          messages       |-> Append(st.messages, Len(st.heap) + 1),
          first_user_msg |-> UpdatePreview(msg, st.first_user_msg)]

RECURSIVE ParseLoop(_, _, _)
ParseLoop(mapping, st, node_path) ==
    IF node_path = <<>> THEN st
    ELSE ParseLoop(mapping, ParseIter(mapping, st, Head(node_path)), Tail(node_path))

\* raw.get("conversation_id") or raw.get("id", "")
ConvId(r) ==
    IF Get(r, "conversation_id", "") # "" THEN r["conversation_id"]
    ELSE Get(r, "id", "")

\* the Conversation that parse_conversation returns, and the heap of its messages
ParseConversationResult(r) ==
    LET mapping      == Get(r, "mapping", EmptyDict)
        current_node == Get(r, "current_node", NoId)
        node_path    == TraverseToRoot(mapping, current_node)
        st           == ParseLoop(mapping, ParseStart, node_path) IN
    [heap |-> st.heap,
     conv |-> [id                 |-> ConvId(r),
               title              |-> Get(r, "title", "Untitled"),
               model_slug         |-> Get(r, "default_model_slug", ""),
               messages           |-> st.messages,
               message_count      |-> Len(st.messages),
               first_user_message |-> st.first_user_msg]]

(***************************************************************************)
(* renderer.py: visible_messages.  st is the state of the loop over        *)
(* conv.messages: the heap and the result list.  msg is a reference: the   *)
(* code rebinds it to a new Message and leaves the input Message alone.    *)
(***************************************************************************)
\* ToolVisibleKinds, as the comment above the tuple lists them
ToolVisibleKinds_AsCommented == {"execution_output", "tether_quote"}

ToolVisibleKinds == {"execution_output", "tether_quote", "tether_browsing_display"}

\* [pc for pc in msg.content if pc.content_type in (...)]
RECURSIVE VisibleContent(_)
VisibleContent(content) ==
    IF content = <<>> THEN <<>>
    ELSE IF Head(content).content_type \in ToolVisibleKinds
         THEN <<Head(content)>> \o VisibleContent(Tail(content))
         ELSE VisibleContent(Tail(content))

\* WithoutThoughts, were the tag compared with that of a reasoning recap
RECURSIVE WithoutThoughts_WrongTag(_)
WithoutThoughts_WrongTag(content) ==
    IF content = <<>> THEN <<>>
    ELSE IF Head(content).content_type # "reasoning_recap"
         THEN <<Head(content)>> \o WithoutThoughts_WrongTag(Tail(content))
         ELSE WithoutThoughts_WrongTag(Tail(content))

\* [pc for pc in msg.content if pc.content_type != "thoughts"]
RECURSIVE WithoutThoughts(_)
WithoutThoughts(content) ==
    IF content = <<>> THEN <<>>
    ELSE IF Head(content).content_type # "thoughts"
         THEN <<Head(content)>> \o WithoutThoughts(Tail(content))
         ELSE WithoutThoughts(Tail(content))

\* ReplaceContent, were the content of the input Message assigned in place
ReplaceContent_InPlace(h, msg, content) ==
    [heap |-> [h EXCEPT ![msg].content = content], msg |-> msg]

\* msg = Message(id=msg.id, ..., content=content, ...): a new object, msg rebound to it
ReplaceContent(h, msg, content) ==
    [heap |-> Append(h, Message(h[msg].id, h[msg].role, h[msg].content_type,
                                content, h[msg].model_slug, h[msg].weight)),
     msg  |-> Len(h) + 1]

\* the tool-role branch: dropped, or msg rebound to the filtered copy
ToolBranch(h, msg) ==
    IF h[msg].role = "tool"
    THEN IF VisibleContent(h[msg].content) = <<>>
         THEN [heap |-> h, msg |-> msg, dropped |-> TRUE]
         ELSE [dropped |-> FALSE] @@ ReplaceContent(h, msg, VisibleContent(h[msg].content))
    ELSE [heap |-> h, msg |-> msg, dropped |-> FALSE]

\* ThoughtsBranch, were include_thoughts not consulted
ThoughtsBranch_Always(h, msg, it) ==
    IF WithoutThoughts(h[msg].content) = <<>>
    THEN [heap |-> h, msg |-> msg, dropped |-> TRUE]
    ELSE [dropped |-> FALSE] @@ ReplaceContent(h, msg, WithoutThoughts(h[msg].content))

\* the thoughts branch
ThoughtsBranch(h, msg, it) ==
    IF ~it
    THEN IF WithoutThoughts(h[msg].content) = <<>>
         THEN [heap |-> h, msg |-> msg, dropped |-> TRUE]
         ELSE [dropped |-> FALSE] @@ ReplaceContent(h, msg, WithoutThoughts(h[msg].content))
    ELSE [heap |-> h, msg |-> msg, dropped |-> FALSE]

\* VisibleIter, were a kept message put at the front of the result
VisibleIter_Prepend(st, msg, it) ==
    LET a == ToolBranch(st.heap, msg) IN
    IF a.dropped THEN st
    ELSE LET b == ThoughtsBranch(a.heap, a.msg, it) IN
         IF b.dropped THEN [st EXCEPT !.heap = b.heap]
         ELSE [heap |-> b.heap, result |-> <<b.msg>> \o st.result]

\* the body of the loop, for one message of conv.messages
VisibleIter(st, msg, it) ==
    LET a == ToolBranch(st.heap, msg) IN
    IF a.dropped THEN st
    ELSE LET b == ThoughtsBranch(a.heap, a.msg, it) IN
         IF b.dropped THEN [st EXCEPT !.heap = b.heap]
         ELSE [heap |-> b.heap, result |-> Append(st.result, b.msg)]

RECURSIVE VisibleLoop(_, _, _)
VisibleLoop(st, messages, it) ==
    IF messages = <<>> THEN st
    ELSE VisibleLoop(VisibleIter(st, Head(messages), it), Tail(messages), it)

VisibleMessagesResult(h, c, it) ==
    VisibleLoop([heap |-> h, result |-> <<>>], c.messages, it)

(***************************************************************************)
(* Inputs: raw export records.  A node of the mapping carries its own key  *)
(* as its id, as the export writes it.                                     *)
(***************************************************************************)
NodeName == <<"n1", "n2", "n3", "n4", "n5", "n6">>

StrPart(t) == [kind |-> "str", s |-> t]

DictPart(d) == [kind |-> "dict", d |-> d]

\* " hi\n": text with whitespace at both ends
PaddedText == <<" ", "h", "i", "\n">>

\* " a...abc ": one character more than the preview holds, once trimmed
LongText ==
    <<" ">> \o [i \in 1..(PreviewLen - 1) |-> "a"] \o <<"b", "c", " ">>

ImagePart ==
    DictPart([content_type  |-> "image_asset_pointer",
              asset_pointer |-> Sediment \o <<"f">>,
              width         |-> <<640>>])

RawMessage(role, weight, content) ==
    [author |-> [role |-> role], weight |-> weight, content |-> content]

TextOf(t) == [content_type |-> "text", parts |-> <<StrPart(t)>>]

ThoughtsOf ==
    [content_type |-> "thoughts",
     thoughts |-> <<[content |-> <<"t">>, summary |-> <<"s">>],
                    [content |-> <<" ">>]>>]

\* the messages a node of the parse pipeline may carry
SampleMessages ==
    { RawMessage("system", 1, TextOf(<<"s">>)),
      RawMessage("user", 1, TextOf(PaddedText)),
      RawMessage("user", 1, [content_type |-> "multimodal_text",
                             parts |-> <<ImagePart>>]),
      RawMessage("user", 1, [content_type |-> "multimodal_text",
                             parts |-> <<ImagePart, StrPart(<<" ">>),
                                         StrPart(LongText)>>]),
      RawMessage("assistant", 1, ThoughtsOf),
      RawMessage("assistant", 1, [content_type |-> "user_editable_context"]),
      RawMessage("tool", 1, [content_type |-> "execution_output",
                             text |-> <<"o">>]),
      RawMessage("tool", 1, ThoughtsOf),
      RawMessage("user", 0, TextOf(<<"p">>)),
      [content |-> [parts |-> <<StrPart(<<"u">>)>>]] }

RawNode(id, parent, message) ==
    IF message = NoMessage
    THEN [id |-> id, parent |-> parent]
    ELSE [id |-> id, parent |-> parent, message |-> message]

RawRecord(mapping, current_node) ==
    [id |-> "c1", title |-> "T", mapping |-> mapping,
     current_node |-> current_node]

\* r is a record over the node ids ids whose nodes carry a message of messages or
\* none; a parent or a current_node that is no key of the mapping is a missing node
IsRecordOver(r, ids, messages) ==
    \E keys \in SUBSET ids :
      \E f \in [keys -> [parent : ids \cup {NoId},
                         message : messages \cup {NoMessage}]] :
        \E current_node \in ids \cup {NoId} :
          r = RawRecord([id \in keys |-> RawNode(id, f[id].parent, f[id].message)],
                        current_node)

NodeIds == {NodeName[i] : i \in 1..MaxNodes}

TreeNodeIds == {NodeName[i] : i \in 1..MaxTreeNodes}

(***************************************************************************)
(* The state machine.  pc is the position of the caller: "start" before    *)
(* parse_conversation, "parsed" after it, "filtered" after                 *)
(* visible_messages; "traverse" and "traversed" around the loop of         *)
(* _traverse_to_root when it is followed one iteration at a time.          *)
(***************************************************************************)
NoConv == [none |-> TRUE]

\* _parse_content is not called on its own
NoContent ==
    /\ raw_content = EmptyDict
    /\ items = <<>>

\* no command of the cli other than the one modelled is run
NoCli ==
    /\ scan = EmptyDict
    /\ gen = EmptyDict
    /\ batch = EmptyDict
    /\ cat = EmptyDict

\* no ImageResolver is constructed
NoResolver ==
    /\ files = <<>>
    /\ index = EmptyDict
    /\ pointer = <<>>
    /\ resolved = <<>>
    /\ rendered = 0
    /\ writes = EmptyDict

Init ==
    /\ IsRecordOver(raw, NodeIds, SampleMessages)
    /\ pc = "start"
    /\ trav = TraverseStart(NoId)
    /\ heap = <<>>
    /\ conv = NoConv
    /\ include_thoughts = FALSE
    /\ result = <<>>
    /\ NoContent
    /\ NoCli
    /\ NoResolver

\* cli.py: conv = parse_conversation(raw)
ParseConversation ==
    /\ pc = "start"
    /\ heap' = ParseConversationResult(raw).heap
    /\ conv' = ParseConversationResult(raw).conv
    /\ pc' = "parsed"
    /\ UNCHANGED <<cliVars, raw, trav, include_thoughts, result, contentVars, resolverVars>>

\* the renderers: messages = visible_messages(conv, include_thoughts=...)
VisibleMessages(it) ==
    /\ pc = "parsed"
    /\ include_thoughts' = it
    /\ heap' = VisibleMessagesResult(heap, conv, it).heap
    /\ result' = VisibleMessagesResult(heap, conv, it).result
    /\ pc' = "filtered"
    /\ UNCHANGED <<cliVars, raw, trav, conv, contentVars, resolverVars>>

Next ==
    \/ ParseConversation
    \/ \E it \in BOOLEAN : VisibleMessages(it)

Spec == Init /\ [][Next]_vars

(***************************************************************************)
(* _traverse_to_root, one iteration of its loop at a time.                 *)
(***************************************************************************)
InitTraverse ==
    /\ IsRecordOver(raw, TreeNodeIds, {})
    /\ pc = "traverse"
    /\ trav = TraverseStart(Get(raw, "current_node", NoId))
    /\ heap = <<>>
    /\ conv = NoConv
    /\ include_thoughts = FALSE
    /\ result = <<>>
    /\ NoContent
    /\ NoCli
    /\ NoResolver

TraverseStep ==
    /\ pc = "traverse"
    /\ ~trav.ended
    /\ trav' = TraverseIter(raw.mapping, trav)
    /\ UNCHANGED <<cliVars, raw, pc, heap, conv, include_thoughts, result,
                 contentVars, resolverVars>>

\* path.reverse(); return path
TraverseReturn ==
    /\ pc = "traverse"
    /\ trav.ended
    /\ trav' = [trav EXCEPT !.path = Reverse(@)]
    /\ pc' = "traversed"
    /\ UNCHANGED <<cliVars, raw, heap, conv, include_thoughts, result,
                 contentVars, resolverVars>>

NextTraverse == TraverseStep \/ TraverseReturn

SpecTraverse == InitTraverse /\ [][NextTraverse]_vars

\* the loop is a sequential program: a step that can be taken is taken
FairSpecTraverse == SpecTraverse /\ WF_vars(NextTraverse)

(***************************************************************************)
(* visible_messages on a Conversation that a caller built: the blocks of   *)
(* a message are blocks the normaliser emits, in any mix and order.  Every *)
(* message has a block, as every message of the parser has.                *)
(***************************************************************************)
SampleBlocks ==
    { ParseContent(TextOf(<<"x">>))[1],
      ParseContent(ThoughtsOf)[1],
      ParseContent([content_type |-> "execution_output", text |-> <<"o">>])[1],
      ParseContent([content_type |-> "tether_quote", text |-> <<"q">>,
                    url |-> "u", domain |-> "d"])[1],
      ParseContent([content_type |-> "tether_browsing_display",
                    summary |-> <<"b">>])[1] }

FilterRoles == {"tool", "assistant"}

RECURSIVE SumTo(_, _)
SumTo(lens, i) == IF i = 0 THEN 0 ELSE lens[i] + SumTo(lens, i - 1)

InitFilter ==
    /\ raw = EmptyDict
    /\ pc = "parsed"
    /\ trav = TraverseStart(NoId)
    /\ \E n \in 0..MaxBlocks :
         \E lens \in [1..n -> 1..MaxBlocks] :
           /\ SumTo(lens, n) <= MaxBlocks
           /\ \E roles \in [1..n -> FilterRoles] :
                \E blocks \in [1..SumTo(lens, n) -> SampleBlocks] :
                  /\ heap = [i \in 1..n |->
                               Message(NodeName[i], roles[i],
                                       blocks[SumTo(lens, i - 1) + 1].content_type,
                                       SubSeq(blocks, SumTo(lens, i - 1) + 1,
                                              SumTo(lens, i)),
                                       "", 1)]
                  /\ conv = [id |-> "c1", title |-> "T", model_slug |-> "",
                             messages |-> [i \in 1..n |-> i],
                             message_count |-> n,
                             first_user_message |-> <<>>]
    /\ include_thoughts = FALSE
    /\ result = <<>>
    /\ NoContent
    /\ NoCli
    /\ NoResolver

NextFilter == \E it \in BOOLEAN : VisibleMessages(it)

SpecFilter == InitFilter /\ [][NextFilter]_vars

(***************************************************************************)
(* _parse_content called on a raw content dict.  Every key of the dict may *)
(* be absent; a key that is present holds a value of the type the export   *)
(* writes for it.                                                          *)
(***************************************************************************)
\* an optional key: absent, or present with a value of S
Opt(S) == {<<>>} \cup {<<v>> : v \in S}

\* the dict of the keys of rec that are present
Dict(rec) == [k \in {j \in DOMAIN rec : rec[j] # <<>>} |-> rec[k][1]]

\* empty, blank, plain, and padded with whitespace
SampleTexts == {<<>>, <<" ">>, <<"a">>, <<" ", "b", "\n">>}

SampleParts ==
    { StrPart(<<"a">>), StrPart(<<"b">>), StrPart(<<" ">>), StrPart(<<>>),
      ImagePart, DictPart([content_type |-> "audio_asset_pointer"]),
      [kind |-> "other"] }

PartLists == UNION {[1..n -> SampleParts] : n \in 0..MaxParts}

\* a content type that _parse_content has no arm for
UnknownType == "foo"

\* contents of the arms that no key is varied for
OtherContents ==
    { ThoughtsOf,
      [content_type |-> "reasoning_recap", content |-> <<"r">>],
      [content_type |-> "execution_output", text |-> <<"o">>],
      [content_type |-> "computer_output",
       screenshot |-> [asset_pointer |-> Sediment \o <<"f">>]],
      [content_type |-> "computer_output"],
      [content_type |-> "system_error", text |-> <<"e">>],
      [content_type |-> "user_editable_context"] }

IsContent(c) ==
    \/ \E ct \in Opt({"text", "multimodal_text"}) :
         \E parts \in Opt(PartLists) :
           c = Dict([content_type |-> ct, parts |-> parts])
    \/ \E text \in Opt(SampleTexts) :
         \E language \in Opt({"unknown", "python", ""}) :
           c = Dict([content_type |-> <<"code">>, text |-> text,
                     language |-> language])
    \/ \E text \in Opt(SampleTexts) :
         \E url \in Opt({"u"}) :
           \E domain \in Opt({"d"}) :
             c = Dict([content_type |-> <<"tether_quote">>, text |-> text,
                       url |-> url, domain |-> domain])
    \/ \E summary \in Opt(SampleTexts) :
         \E res \in Opt(SampleTexts) :
           c = Dict([content_type |-> <<"tether_browsing_display">>,
                     summary |-> summary, result |-> res])
    \/ \E parts \in Opt(PartLists) :
         \E text \in Opt(SampleTexts) :
           c = Dict([content_type |-> <<UnknownType>>, parts |-> parts,
                     text |-> text])
    \/ c \in OtherContents

InitContent ==
    /\ raw = EmptyDict
    /\ pc = "content"
    /\ trav = TraverseStart(NoId)
    /\ heap = <<>>
    /\ conv = NoConv
    /\ include_thoughts = FALSE
    /\ result = <<>>
    /\ IsContent(raw_content)
    /\ items = <<>>
    /\ NoResolver
    /\ NoCli

\* _parse_message: parsed = _parse_content(content_data)
NormalizeContent ==
    /\ pc = "content"
    /\ items' = ParseContent(raw_content)
    /\ pc' = "normalized"
    /\ UNCHANGED <<cliVars, raw, trav, heap, conv, include_thoughts, result,
                   raw_content, resolverVars>>

NextContent == NormalizeContent

SpecContent == InitContent /\ [][NextContent]_vars

(***************************************************************************)
(* image_resolver.py.  A file name and an asset pointer are strings that   *)
(* the code searches and slices: sequences of characters.  A path is its   *)
(* directory and its name; an entry of the walk says also whether the path *)
(* is a file.  A value that may be None is <<>> or <<v>>.                  *)
(***************************************************************************)
\* s[n:]
Drop(s, n) == SubSeq(s, n + 1, Len(s))

\* s.find(c): the offset of the first c, -1 when there is none
RECURSIVE Find(_, _)
Find(s, c) ==
    IF s = <<>> THEN -1
    ELSE IF Head(s) = c THEN 0
    ELSE IF Find(Tail(s), c) = -1 THEN -1
    ELSE 1 + Find(Tail(s), c)

\* s.rfind(c): the offset of the last c, -1 when there is none
RECURSIVE RFind(_, _)
RFind(s, c) ==
    IF s = <<>> THEN -1
    ELSE IF s[Len(s)] = c THEN Len(s) - 1
    ELSE RFind(SubSeq(s, 1, Len(s) - 1), c)

\* s.split(sep), sep one character
RECURSIVE Split(_, _)
Split(s, sep) ==
    IF Find(s, sep) = -1 THEN <<s>>
    ELSE <<Take(s, Find(s, sep))>> \o Split(Drop(s, Find(s, sep) + 1), sep)

\* str.lower(), on the characters of the sample names
LowerChar(c) ==
    CASE c = "P" -> "p"
      [] c = "N" -> "n"
      [] c = "G" -> "g"
      [] OTHER -> c

Lower(s) == [i \in 1..Len(s) |-> LowerChar(s[i])]

\* PurePath.suffix: from the last dot, unless it leads or ends the name
Suffix(name) ==
    IF 0 < RFind(name, ".") /\ RFind(name, ".") < Len(name) - 1
    THEN Drop(name, RFind(name, "."))
    ELSE <<>>

\* PurePath.stem: up to the last dot, unless it leads or ends the name
Stem(name) ==
    IF 0 < RFind(name, ".") /\ RFind(name, ".") < Len(name) - 1
    THEN Take(name, RFind(name, "."))
    ELSE name

ImageExts ==
    { <<".", "p", "n", "g">>, <<".", "j", "p", "g">>, <<".", "j", "p", "e", "g">>,
      <<".", "w", "e", "b", "p">>, <<".", "g", "i", "f">>, <<".", "b", "m", "p">>,
      <<".", "s", "v", "g">> }

\* "file_"
FileU == <<"f", "i", "l", "e", "_">>

\* "file-"
FileD == <<"f", "i", "l", "e", "-">>

PathOf(f) == [dir |-> f.dir, name |-> f.name]

\* the identifier of a name that starts with prefix: up to the first hyphen behind
\* the prefix when one stands at an offset above 0, and the stem otherwise
PrefixedId(prefix, name) ==
    LET rest     == Drop(name, 5)
        dash_pos == Find(rest, "-") IN
    IF dash_pos > 0 THEN prefix \o Take(rest, dash_pos) ELSE Stem(name)

\* the file_id a name is indexed under; <<>> when the name has neither prefix
FileId(name) ==
    IF StartsWith(name, FileU) THEN <<PrefixedId(FileU, name)>>
    ELSE IF StartsWith(name, FileD) THEN <<PrefixedId(FileD, name)>>
    ELSE <<>>

\* the paths the loop does not skip
IsIndexed(f) ==
    /\ f.is_file
    /\ Lower(Suffix(f.name)) \in ImageExts
    /\ FileId(f.name) # <<>>

\* self._index[file_id] = path
Put(idx, file_id, p) ==
    [k \in DOMAIN idx \cup {file_id} |-> IF k = file_id THEN p ELSE idx[k]]

\* IndexFile, were a file_id that is indexed already left with its path
IndexFile_FirstWins(idx, f) ==
    IF ~IsIndexed(f) THEN idx
    ELSE IF FileId(f.name)[1] \in DOMAIN idx THEN idx
    ELSE Put(idx, FileId(f.name)[1], PathOf(f))

\* the body of the loop of _build_index, for one path of the walk
IndexFile(idx, f) ==
    IF ~IsIndexed(f) THEN idx
    ELSE Put(idx, FileId(f.name)[1], PathOf(f))

RECURSIVE BuildIndexLoop(_, _)
BuildIndexLoop(idx, fs) ==
    IF fs = <<>> THEN idx
    ELSE BuildIndexLoop(IndexFile(idx, Head(fs)), Tail(fs))

\* __init__: self._index = {}; self._build_index()
BuildIndex(fs) == BuildIndexLoop(EmptyDict, fs)

\* self._index.get(file_id)
IndexGet(idx, file_id) ==
    IF file_id \in DOMAIN idx THEN <<idx[file_id]>> ELSE <<>>

IsFilePart(part) == StartsWith(part, FileU) \/ StartsWith(part, FileD)

\* FirstFilePart, were the first segment taken whatever it starts with
FirstFilePart_AnySegment(parts) ==
    IF parts = <<>> THEN <<>> ELSE <<Head(parts)>>

\* the loop over the segments: the first that starts with file_ or file-
RECURSIVE FirstFilePart(_)
FirstFilePart(parts) ==
    IF parts = <<>> THEN <<>>
    ELSE IF IsFilePart(Head(parts)) THEN <<Head(parts)>>
    ELSE FirstFilePart(Tail(parts))

Resolve(idx, ptr) ==
    IF ~StartsWith(ptr, Sediment) THEN <<>>
    ELSE LET rest == Drop(ptr, Len(Sediment)) IN
         IF Find(rest, "#") # -1
         THEN IF FirstFilePart(Split(rest, "#")) = <<>> THEN <<>>
              ELSE IndexGet(idx, FirstFilePart(Split(rest, "#"))[1])
         ELSE IndexGet(idx, rest)

\* ResolveReference, were the width of the reference cleared with the path
ResolveReference_ClearsWidth(idx, ref) ==
    [ref EXCEPT !.resolved_path = Resolve(idx, ref.asset_pointer),
                !.width = <<>>]

\* resolve_reference: ref after ref.resolved_path = path
ResolveReference(idx, ref) ==
    [ref EXCEPT !.resolved_path = Resolve(idx, ref.asset_pointer)]

(***************************************************************************)
(* The resolver on its own: an ImageResolver is constructed over the paths *)
(* of a walk, and resolve is called on a pointer.                          *)
(***************************************************************************)
Png == <<".", "p", "n", "g">>

SampleNames ==
    { FileU \o <<"a", "-", "b">> \o Png,
      FileU \o <<"a", "-", "c", "-", "d">> \o Png,
      FileU \o <<"a">> \o Png,
      FileU \o <<"-", "a">> \o Png,
      FileD \o <<"b", "-", "c">> \o <<".", "j", "p", "g">>,
      FileD \o <<"b">> \o <<".", "P", "N", "G">>,
      FileD \o <<"-", "b">> \o Png,
      <<"x", "-", "y">> \o Png,
      FileU \o <<"a", "-", "b">> \o <<".", "t", "x", "t">> }

SampleDirs == {"d1", "d2"}

\* the files of the sample names in each directory, and one directory that is named
\* as an image file is
SampleEntries ==
    [dir : SampleDirs, name : SampleNames, is_file : {TRUE}]
      \cup {[dir |-> "d1", name |-> FileU \o <<"c", "-", "d">> \o Png,
             is_file |-> FALSE]}

\* a walk enumerates no path twice
IsWalk(fs) ==
    \E n \in 0..MaxFiles :
      \E w \in [1..n -> SampleEntries] :
        /\ \A i, j \in 1..n : i < j => PathOf(w[i]) # PathOf(w[j])
        /\ fs = w

SamplePointers ==
    { <<>>,
      FileU \o <<"a">>,
      Sediment,
      Sediment \o FileU \o <<"a">>,
      Sediment \o FileD \o <<"b">>,
      Sediment \o FileU \o <<"z">>,
      Sediment \o FileU \o <<"-", "a">>,
      Sediment \o <<"h", "#">> \o FileU \o <<"a", "#", "p">>,
      Sediment \o <<"h", "#">> \o FileD \o <<"b">>,
      Sediment \o <<"h", "#", "p">>,
      Sediment \o FileU \o <<"z", "#">> \o FileU \o <<"a">>,
      Sediment \o <<"#">> }

InitResolver ==
    /\ raw = EmptyDict
    /\ pc = "new"
    /\ trav = TraverseStart(NoId)
    /\ heap = <<>>
    /\ conv = NoConv
    /\ include_thoughts = FALSE
    /\ result = <<>>
    /\ NoContent
    /\ NoCli
    /\ IsWalk(files)
    /\ index = EmptyDict
    /\ pointer = <<>>
    /\ resolved = <<>>
    /\ rendered = 0
    /\ writes = EmptyDict

\* cli.py: resolver = ImageResolver(export_root)
NewImageResolver ==
    /\ pc = "new"
    /\ index' = BuildIndex(files)
    /\ pc' = "indexed"
    /\ UNCHANGED <<cliVars, raw, trav, heap, conv, include_thoughts, result, contentVars,
                   files, pointer, resolved, rendered, writes>>

\* resolver.resolve(asset_pointer)
ResolvePointer(p) ==
    /\ pc = "indexed"
    /\ pointer' = p
    /\ resolved' = Resolve(index, p)
    /\ pc' = "resolved"
    /\ UNCHANGED <<cliVars, raw, trav, heap, conv, include_thoughts, result, contentVars,
                   files, index, rendered, writes>>

NextResolver ==
    \/ NewImageResolver
    \/ \E p \in SamplePointers : ResolvePointer(p)

SpecResolver == InitResolver /\ [][NextResolver]_vars

(***************************************************************************)
(* pdf_renderer.py: the render of a parsed conversation with a resolver.   *)
(* The blocks of the filtered copy of a message are the ParsedContent      *)
(* objects of the message itself, so a write to an image reference is seen *)
(* from both.  The references of a conversation have distinct asset        *)
(* pointers here, so that the copies of one reference are the values that  *)
(* hold its pointer.  What _image_to_base64 does after resolve_reference   *)
(* reads the file and writes nothing.                                      *)
(***************************************************************************)
\* the image references of a list of blocks that _render_content_html hands to
\* _image_to_base64, in order, by asset pointer
RECURSIVE ContentTargets(_)
ContentTargets(blocks) ==
    IF blocks = <<>> THEN <<>>
    ELSE (IF Head(blocks).content_type \in {"image", "computer_output"}
          THEN [i \in 1..Len(Head(blocks).images) |->
                  Head(blocks).images[i].asset_pointer]
          ELSE <<>>) \o ContentTargets(Tail(blocks))

\* the same for the messages of the render
RECURSIVE RenderTargets(_, _)
RenderTargets(h, messages) ==
    IF messages = <<>> THEN <<>>
    ELSE ContentTargets(h[Head(messages)].content)
           \o RenderTargets(h, Tail(messages))

\* the blocks, once the reference of pointer ptr is resolved
ResolveInContent(idx, blocks, ptr) ==
    [b \in 1..Len(blocks) |->
       [blocks[b] EXCEPT !.images =
          [i \in 1..Len(blocks[b].images) |->
             IF blocks[b].images[i].asset_pointer = ptr
             THEN ResolveReference(idx, blocks[b].images[i])
             ELSE blocks[b].images[i]]]]

\* the heap, once the reference of pointer ptr is resolved
ResolveInHeap(idx, h, ptr) ==
    [a \in 1..Len(h) |->
       [h[a] EXCEPT !.content = ResolveInContent(idx, h[a].content, ptr)]]

\* the asset pointers of the image references of the heap
ImagePointers(h) ==
    {h[a].content[b].images[i].asset_pointer :
       <<a, b, i>> \in {t \in (1..Len(h)) \X (1..MaxBlocks + 1) \X {1} :
                         /\ t[2] <= Len(h[t[1]].content)
                         /\ t[3] <= Len(h[t[1]].content[t[2]].images)}}

Letters == <<"a", "b", "c", "d", "e", "f">>

\* the pointer of the reference of the k-th block
RenderPointer(k) == Sediment \o FileU \o <<Letters[k]>>

\* the export holds the files of the first two pointers
RenderFiles ==
    << [dir |-> "d1", name |-> FileU \o <<"a", "-", "b">> \o Png, is_file |-> TRUE],
       [dir |-> "d1", name |-> FileU \o <<"b", "-", "c">> \o Png, is_file |-> TRUE] >>

\* the blocks the k-th block of a conversation is drawn from
RenderBlocksAt(k) ==
    { ParseContent([content_type |-> "multimodal_text",
                    parts |-> <<DictPart([content_type  |-> "image_asset_pointer",
                                          asset_pointer |-> RenderPointer(k),
                                          width         |-> <<640>>])>>])[1],
      ParseContent([content_type |-> "computer_output",
                    screenshot |-> [asset_pointer |-> RenderPointer(k),
                                    width         |-> <<640>>]])[1],
      ParseContent([content_type |-> "execution_output", text |-> <<"o">>])[1],
      ParseContent(ThoughtsOf)[1] }

\* the content type of the raw content that gave a block
RawTypeOf(block) ==
    IF block.content_type = "image" THEN "multimodal_text" ELSE block.content_type

InitRender ==
    /\ raw = EmptyDict
    /\ pc = "parsed"
    /\ trav = TraverseStart(NoId)
    /\ \E n \in 0..MaxBlocks :
         \E lens \in [1..n -> 1..MaxBlocks] :
           /\ SumTo(lens, n) <= MaxBlocks
           /\ \E roles \in [1..n -> FilterRoles] :
                \E blocks \in [1..SumTo(lens, n) ->
                                 UNION {RenderBlocksAt(k) : k \in 1..MaxBlocks}] :
                  /\ \A k \in 1..SumTo(lens, n) : blocks[k] \in RenderBlocksAt(k)
                  /\ heap = [i \in 1..n |->
                               Message(NodeName[i], roles[i],
                                       RawTypeOf(blocks[SumTo(lens, i - 1) + 1]),
                                       SubSeq(blocks, SumTo(lens, i - 1) + 1,
                                              SumTo(lens, i)),
                                       "", 1)]
                  /\ conv = [id |-> "c1", title |-> "T", model_slug |-> "",
                             messages |-> [i \in 1..n |-> i],
                             message_count |-> n,
                             first_user_message |-> <<>>]
    /\ include_thoughts = FALSE
    /\ result = <<>>
    /\ NoContent
    /\ NoCli
    /\ files = RenderFiles
    /\ index = BuildIndex(RenderFiles)
    /\ pointer = <<>>
    /\ resolved = <<>>
    /\ rendered = 0
    /\ writes = [p \in ImagePointers(heap) |-> 0]

\* _image_to_base64(img, resolver): resolver.resolve_reference(img), for the next
\* image reference of the render
ImageToBase64 ==
    /\ pc = "filtered"
    /\ rendered < Len(RenderTargets(heap, result))
    /\ LET img == RenderTargets(heap, result)[rendered + 1] IN
         /\ pointer' = img
         /\ resolved' = Resolve(index, img)
         /\ heap' = ResolveInHeap(index, heap, img)
         /\ writes' = [writes EXCEPT ![img] = @ + 1]
    /\ rendered' = rendered + 1
    /\ UNCHANGED <<cliVars, raw, pc, trav, conv, include_thoughts, result, contentVars,
                   files, index>>

\* render_conversation_pdf returns once every block is rendered
RenderReturn ==
    /\ pc = "filtered"
    /\ rendered = Len(RenderTargets(heap, result))
    /\ pc' = "rendered"
    /\ UNCHANGED <<cliVars, raw, trav, heap, conv, include_thoughts, result, contentVars,
                   resolverVars>>

NextRender ==
    \/ \E it \in BOOLEAN : VisibleMessages(it)
    \/ ImageToBase64
    \/ RenderReturn

SpecRender == InitRender /\ [][NextRender]_vars

(***************************************************************************)
(* manifest.py and the scan command of cli.py.  An entry holds the fields  *)
(* of ManifestEntry but update_time and model, which are copied as title   *)
(* is.  create_time is a formatted time, or "unknown": it is held as its   *)
(* rank in the order of str, which is all that sorted reads.               *)
(***************************************************************************)
ManifestEntry(id, title, create_time, update_time, message_count, model, preview, project, tags, include) ==
    [id |-> id, title |-> title, create_time |-> create_time,
     update_time |-> update_time, message_count |-> message_count,
     model |-> model, preview |-> preview,
     project |-> project, tags |-> tags, include |-> include]

\* conversation_to_entry; created and updated are the formatted create_time and
\* update_time of the conversation
ConversationToEntry(c, created, updated) ==
    ManifestEntry(c.id, c.title, created, updated, c.message_count, c.model_slug,
                  Take(c.first_user_message, 150), "", <<>>, TRUE)

\* existing_by_id.get(id): the last entry of that id; <<>> for None
RECURSIVE ExistingById(_, _)
ExistingById(existing, id) ==
    IF existing = <<>> THEN <<>>
    ELSE IF existing[Len(existing)].id = id THEN <<existing[Len(existing)]>>
    ELSE ExistingById(SubSeq(existing, 1, Len(existing) - 1), id)

\* MergeEntry, were the fields kept those the docstring lists: project and include
MergeEntry_AsDocumented(existing, new_entry) ==
    IF ExistingById(existing, new_entry.id) # <<>>
    THEN [new_entry EXCEPT
            !.project = ExistingById(existing, new_entry.id)[1].project,
            !.include = ExistingById(existing, new_entry.id)[1].include]
    ELSE new_entry

\* the body of the loop of merge_manifest: new_entry, as it is appended
MergeEntry(existing, new_entry) ==
    IF ExistingById(existing, new_entry.id) # <<>>
    THEN [new_entry EXCEPT
            !.project = ExistingById(existing, new_entry.id)[1].project,
            !.tags    = ExistingById(existing, new_entry.id)[1].tags,
            !.include = ExistingById(existing, new_entry.id)[1].include]
    ELSE new_entry

MergeManifest(existing, new_entries) ==
    [i \in 1..Len(new_entries) |-> MergeEntry(existing, new_entries[i])]

\* _entry_to_dict: the key tags is written only for an entry that has tags
EntryToDict(e) ==
    IF e.tags # <<>>
    THEN [id |-> e.id, title |-> e.title, created |-> e.create_time,
          updated |-> e.update_time, messages |-> e.message_count,
          model |-> e.model, preview |-> e.preview,
          project |-> e.project, tags |-> e.tags, include |-> e.include]
    ELSE [id |-> e.id, title |-> e.title, created |-> e.create_time,
          updated |-> e.update_time, messages |-> e.message_count,
          model |-> e.model, preview |-> e.preview,
          project |-> e.project, include |-> e.include]

\* one insertion of sorted(entries, key=create_time, reverse=True): behind every
\* entry that is not older, so that entries of one create_time keep their order
RECURSIVE InsertNewestFirst(_, _)
InsertNewestFirst(sorted, e) ==
    IF sorted = <<>> THEN <<e>>
    ELSE IF Head(sorted).create_time >= e.create_time
         THEN <<Head(sorted)>> \o InsertNewestFirst(Tail(sorted), e)
         ELSE <<e>> \o sorted

RECURSIVE SortNewestFirst(_)
SortNewestFirst(entries) ==
    IF entries = <<>> THEN <<>>
    ELSE InsertNewestFirst(SortNewestFirst(SubSeq(entries, 1, Len(entries) - 1)),
                           entries[Len(entries)])

\* write_manifest: the conversations of the file
WrittenConversations(entries) ==
    [i \in 1..Len(entries) |-> EntryToDict(SortNewestFirst(entries)[i])]

\* the ranks of two formatted times and of "unknown"
SampleTimes == {1, 2, 3}

\* the conversations of the archive, as parse_conversation returns them
SampleConvs ==
    [id : {"c1", "c2"}, title : {"T"}, message_count : {2}, model_slug : {"m"},
     first_user_message : {<<"h", "i">>}]

\* the entries of a manifest that a user edited: a project with a tag and include
\* off, nothing assigned, a project alone
SampleExisting ==
    { ManifestEntry(id, "old", 1, "unknown", 1, "", <<>>, e.project, e.tags, e.include) :
        <<id, e>> \in {"c1", "c3"} \X
          { [project |-> "p", tags |-> <<"q">>, include |-> FALSE],
            [project |-> "", tags |-> <<>>, include |-> TRUE],
            [project |-> "r", tags |-> <<>>, include |-> TRUE] } }

InitScan ==
    /\ raw = EmptyDict
    /\ pc = "scan_parsed"
    /\ trav = TraverseStart(NoId)
    /\ heap = <<>>
    /\ conv = NoConv
    /\ include_thoughts = FALSE
    /\ result = <<>>
    /\ NoContent
    /\ NoResolver
    /\ \E n \in 0..MaxScan :
         \E convs \in [1..n -> SampleConvs] :
           \E times \in [1..n -> SampleTimes] :
             \E exists \in BOOLEAN :
               \E m \in 0..(IF exists THEN MaxScan ELSE 0) :
                 \E existing \in [1..m -> SampleExisting] :
                   scan = [exists   |-> exists,
                           existing |-> existing,
                           entries  |-> [i \in 1..n |->
                                           ConversationToEntry(convs[i], times[i], "updated")],
                           written  |-> <<>>]
    /\ gen = EmptyDict
    /\ batch = EmptyDict
    /\ cat = EmptyDict

\* scan: entries = merge_manifest(output, entries), when the manifest exists
MergeManifestCall ==
    /\ pc = "scan_parsed"
    /\ scan.exists
    /\ scan' = [scan EXCEPT !.entries = MergeManifest(scan.existing, scan.entries)]
    /\ pc' = "merged"
    /\ UNCHANGED <<raw, trav, heap, conv, include_thoughts, result,
                   contentVars, resolverVars, gen, batch, cat>>

\* scan: write_manifest(entries, output, ...)
WriteManifest ==
    /\ \/ pc = "merged"
       \/ pc = "scan_parsed" /\ ~scan.exists
    /\ scan' = [scan EXCEPT !.written = WrittenConversations(scan.entries)]
    /\ pc' = "written"
    /\ UNCHANGED <<raw, trav, heap, conv, include_thoughts, result,
                   contentVars, resolverVars, gen, batch, cat>>

NextScan == MergeManifestCall \/ WriteManifest

SpecScan == InitScan /\ [][NextScan]_vars

(***************************************************************************)
(* cli.py: the loop of generate.  A record of the archive holds its id and *)
(* its create_time, which is absent or a number: one that fromtimestamp    *)
(* converts, one whose year is out of range (ValueError), or one that is   *)
(* out of range for the platform time_t (OverflowError).  Whether the      *)
(* renderer raises on a conversation is not decided by the model.          *)
(***************************************************************************)
\* _ts_to_dt: the datetime, None when ts is None or on OSError and ValueError;
\* an OverflowError is not caught
TsToDt(ts) ==
    CASE ts = "none"                -> [raised |-> FALSE, value |-> <<>>]
      [] ts = "in_range"            -> [raised |-> FALSE, value |-> <<ts>>]
      [] ts = "year_out_of_range"   -> [raised |-> FALSE, value |-> <<>>]
      [] ts = "time_t_out_of_range" -> [raised |-> TRUE, value |-> <<>>]

\* parse_conversation raises: create_time = _ts_to_dt(raw.get("create_time"))
ParseRaises(r) == TsToDt(Get(r, "create_time", "none")).raised

\* raw.get("conversation_id") or raw.get("id", "")
RecordId(r) ==
    IF Get(r, "conversation_id", NoId) # NoId THEN r["conversation_id"]
    ELSE Get(r, "id", NoId)

\* the body of the loop for the record r; render_raises says whether render_fn
\* raises an Exception
GenerateIter(g, r, render_raises) ==
    IF RecordId(r) \notin g.included_ids
    THEN [g EXCEPT !.i = @ + 1]
    ELSE IF ParseRaises(r)
         THEN [g EXCEPT !.aborted = TRUE]
         ELSE IF render_raises
              THEN [g EXCEPT !.i = @ + 1, !.errors = @ + 1]
              ELSE [g EXCEPT !.i = @ + 1, !.generated = @ + 1,
                             !.rendered = Append(@, g.i)]

SampleRecords ==
    {[id |-> id] : id \in {"c1", "c2"}}
      \cup [id : {"c1", "c2"},
            create_time : {"in_range", "year_out_of_range", "time_t_out_of_range"}]

InitGenerate ==
    /\ raw = EmptyDict
    /\ pc = "generate"
    /\ trav = TraverseStart(NoId)
    /\ heap = <<>>
    /\ conv = NoConv
    /\ include_thoughts = FALSE
    /\ result = <<>>
    /\ NoContent
    /\ NoResolver
    /\ scan = EmptyDict
    /\ \E n \in 0..MaxArchive :
         \E raw_convs \in [1..n -> SampleRecords] :
           \E included_ids \in (SUBSET {"c1", "c2"}) \ {{}} :
             gen = [raw_convs    |-> raw_convs,
                    included_ids |-> included_ids,
                    i            |-> 1,
                    generated    |-> 0,
                    errors       |-> 0,
                    rendered     |-> <<>>,
                    aborted      |-> FALSE]
    /\ batch = EmptyDict
    /\ cat = EmptyDict

\* one iteration of `for raw in raw_convs`
GenerateStep(render_raises) ==
    /\ pc = "generate"
    /\ gen.i <= Len(gen.raw_convs)
    /\ gen' = GenerateIter(gen, gen.raw_convs[gen.i], render_raises)
    /\ pc' = IF gen'.aborted THEN "generate_aborted" ELSE "generate"
    /\ UNCHANGED <<raw, trav, heap, conv, include_thoughts, result,
                   contentVars, resolverVars, scan, batch, cat>>

\* the loop is over: generate prints the counts
GenerateDone ==
    /\ pc = "generate"
    /\ gen.i > Len(gen.raw_convs)
    /\ pc' = "generated"
    /\ UNCHANGED <<raw, trav, heap, conv, include_thoughts, result,
                   contentVars, resolverVars, cliVars>>

NextGenerate ==
    \/ \E render_raises \in BOOLEAN : GenerateStep(render_raises)
    \/ GenerateDone

SpecGenerate == InitGenerate /\ [][NextGenerate]_vars

(***************************************************************************)
(* categorizer.py: extract_conversation_snippets, the walk from            *)
(* current_node to the root that it makes for a record with an id.  The    *)
(* walk is followed one iteration at a time in trav; pc is "snippet"       *)
(* during the walk and "snippet_walked" after path.reverse().  The texts   *)
(* that are then read along the path are read by no step of the walk: they *)
(* are left out.                                                           *)
(***************************************************************************)
\* SnippetIter, were an id that is missing from the mapping not recorded
SnippetIter_MissingUnrecorded(mapping, st) ==
    IF TraverseCond(st) /\ st.node_id \in DOMAIN mapping
    THEN [path    |-> Append(st.path, st.node_id),
          visited |-> st.visited \cup {st.node_id},
          node_id |-> Get(mapping[st.node_id], "parent", NoId),
          ended   |-> FALSE]
    ELSE [st EXCEPT !.ended = TRUE]

\* one pass through the loop: node = mapping.get(node_id, {}) is the empty dict for
\* a missing id, whose parent is None, at which the condition of the loop fails
SnippetIter(mapping, st) ==
    IF TraverseCond(st)
    THEN [path    |-> Append(st.path, st.node_id),
          visited |-> st.visited \cup {st.node_id},
          node_id |-> Get(Get(mapping, st.node_id, EmptyDict), "parent", NoId),
          ended   |-> FALSE]
    ELSE [st EXCEPT !.ended = TRUE]

InitSnippet ==
    /\ IsRecordOver(raw, TreeNodeIds, {})
    /\ pc = "snippet"
    /\ trav = TraverseStart(Get(raw, "current_node", NoId))
    /\ heap = <<>>
    /\ conv = NoConv
    /\ include_thoughts = FALSE
    /\ result = <<>>
    /\ NoContent
    /\ NoCli
    /\ NoResolver

SnippetStep ==
    /\ pc = "snippet"
    /\ ~trav.ended
    /\ trav' = SnippetIter(raw.mapping, trav)
    /\ UNCHANGED <<cliVars, raw, pc, heap, conv, include_thoughts, result,
                 contentVars, resolverVars>>

\* path.reverse()
SnippetReturn ==
    /\ pc = "snippet"
    /\ trav.ended
    /\ trav' = [trav EXCEPT !.path = Reverse(@)]
    /\ pc' = "snippet_walked"
    /\ UNCHANGED <<cliVars, raw, heap, conv, include_thoughts, result,
                 contentVars, resolverVars>>

NextSnippet == SnippetStep \/ SnippetReturn

SpecSnippet == InitSnippet /\ [][NextSnippet]_vars

(***************************************************************************)
(* categorizer.py: categorize_batch.  The oracle is the Claude CLI: a call *)
(* fails with a CLI error (RuntimeError), a timeout or a JSON decode       *)
(* error, or its response parses to raw, None (JSON null) or a list of     *)
(* items.  An item is a dict or, as any JSON value that is no object, a    *)
(* string; a confidence is a number or a string that int() rejects.  batch *)
(* holds the state of the call: the ids of the entries, the allowed        *)
(* project names, the attempt, the number of calls made and of responses   *)
(* parsed, raw, the results, and the status: "running", "returned" or      *)
(* "raised".                                                               *)
(***************************************************************************)
max_retries == 2

Max(a, b) == IF a >= b THEN a ELSE b

CategoryResult(id, project, tags, confidence) ==
    [id |-> id, project |-> project, tags |-> tags, confidence |-> confidence]

Number(n) == [kind |-> "number", n |-> n]

NotANumber == [kind |-> "string"]

\* ResultsLoop, were the project of an item taken as it is named
RECURSIVE ResultsLoop_ProjectAsNamed(_, _, _, _)
ResultsLoop_ProjectAsNamed(answer, entry_ids, project_set, results) ==
    IF answer = <<>> THEN [raised |-> FALSE, results |-> results]
    ELSE LET item == Head(answer) IN
         IF item.kind # "dict" THEN [raised |-> TRUE, results |-> results]
         ELSE LET cid        == Get(item.d, "id", NoId)
                  project    == Get(item.d, "project", "")
                  tags       == SelectSeq(Get(item.d, "tags", <<>>),
                                          LAMBDA t : t \in project_set /\ t # project)
                  confidence == Get(item.d, "confidence", Number(100))
              IN
              IF cid \notin entry_ids
              THEN ResultsLoop_ProjectAsNamed(Tail(answer), entry_ids, project_set,
                                              results)
              ELSE IF confidence.kind # "number"
              THEN [raised |-> TRUE, results |-> results]
              ELSE ResultsLoop_ProjectAsNamed(Tail(answer), entry_ids, project_set,
                     Append(results,
                            CategoryResult(cid, project, tags,
                                           Max(0, Min(100, confidence.n)))))

\* the loop over the items of raw, here answer; an item that is no dict raises at item.get, a
\* confidence that is no number raises at int()
RECURSIVE ResultsLoop(_, _, _, _)
ResultsLoop(answer, entry_ids, project_set, results) ==
    IF answer = <<>> THEN [raised |-> FALSE, results |-> results]
    ELSE LET item == Head(answer) IN
         IF item.kind # "dict" THEN [raised |-> TRUE, results |-> results]
         ELSE LET cid        == Get(item.d, "id", NoId)
                  named      == Get(item.d, "project", "")
                  project    == IF named \notin project_set THEN "" ELSE named
                  tags       == SelectSeq(Get(item.d, "tags", <<>>),
                                          LAMBDA t : t \in project_set /\ t # project)
                  confidence == Get(item.d, "confidence", Number(100))
              IN
              IF cid \notin entry_ids
              THEN ResultsLoop(Tail(answer), entry_ids, project_set, results)
              ELSE IF confidence.kind # "number"
              THEN [raised |-> TRUE, results |-> results]
              ELSE ResultsLoop(Tail(answer), entry_ids, project_set,
                     Append(results,
                            CategoryResult(cid, project, tags,
                                           Max(0, Min(100, confidence.n)))))

BatchStart(entry_ids, projects) ==
    [entries |-> entry_ids, project_set |-> projects, attempt |-> 0, calls |-> 0,
     parsed |-> 0, raw |-> <<>>, results |-> <<>>, status |-> "running"]

\* BatchAttempt, were the failure of the last attempt raised to the caller
BatchAttempt_LastFailureRaises(b, outcome) ==
    IF outcome.kind = "answer"
    THEN LET r == IF outcome.raw = <<>>
                  THEN [raised |-> FALSE, results |-> <<>>]
                  ELSE ResultsLoop(outcome.raw[1], Range(b.entries), b.project_set, <<>>)
         IN [b EXCEPT !.calls = @ + 1, !.parsed = @ + 1, !.raw = outcome.raw,
                      !.results = IF r.raised THEN <<>> ELSE r.results,
                      !.status = IF r.raised THEN "raised" ELSE "returned"]
    ELSE [b EXCEPT !.calls = @ + 1,
                   !.attempt = IF b.attempt = max_retries THEN @ ELSE @ + 1,
                   !.status = IF b.attempt = max_retries THEN "raised" ELSE "running"]

\* one pass through the retry loop, and what follows the loop when it is left
BatchAttempt(b, outcome) ==
    IF outcome.kind = "answer"
    THEN LET r == IF outcome.raw = <<>>
                  THEN [raised |-> FALSE, results |-> <<>>]
                  ELSE ResultsLoop(outcome.raw[1], Range(b.entries), b.project_set, <<>>)
         IN [b EXCEPT !.calls = @ + 1, !.parsed = @ + 1, !.raw = outcome.raw,
                      !.results = IF r.raised THEN <<>> ELSE r.results,
                      !.status = IF r.raised THEN "raised" ELSE "returned"]
    ELSE [b EXCEPT !.calls = @ + 1,
                   !.attempt = IF b.attempt = max_retries THEN @ ELSE @ + 1,
                   !.status = IF b.attempt = max_retries THEN "returned" ELSE "running"]

RECURSIVE BatchLoop(_, _)
BatchLoop(b, oracle) ==
    IF b.status # "running" \/ oracle = <<>> THEN b
    ELSE BatchLoop(BatchAttempt(b, Head(oracle)), Tail(oracle))

\* categorize_batch; oracle is what the CLI does at each call that is made of it
CategorizeBatch(entry_ids, projects, oracle) ==
    BatchLoop(BatchStart(entry_ids, projects), oracle)

Failures == {[kind |-> f] : f \in {"cli_error", "timeout", "json_error"}}

\* a response that parses to parsed, the value of raw
Answer(parsed) == [kind |-> "answer", raw |-> parsed]

\* the allowed project names
SampleProjects == {"p", "q"}

\* the items of an answer: an id of the batch, of another batch, or none; a
\* project allowed, not allowed, or none; tags allowed, not allowed and equal to
\* the project; a confidence below, within and above 0..100, none, and one that is
\* no number; an item of an id alone, an empty item, and an item that is no dict
SampleItems ==
    { DictPart(Dict([id |-> id, project |-> project,
                     tags |-> <<<<"p", "q", "bad">>>>,
                     confidence |-> confidence])) :
        id \in Opt({"c1", "c2"}), project \in Opt({"p", "bad"}),
        confidence \in Opt({Number(0 - 1), Number(50), Number(101), NotANumber}) }
    \cup {DictPart([id |-> "c1"]), DictPart(EmptyDict), StrPart(<<"a">>)}

InitBatch ==
    /\ raw = EmptyDict
    /\ pc = "batch"
    /\ trav = TraverseStart(NoId)
    /\ heap = <<>>
    /\ conv = NoConv
    /\ include_thoughts = FALSE
    /\ result = <<>>
    /\ NoContent
    /\ NoResolver
    /\ scan = EmptyDict
    /\ gen = EmptyDict
    /\ cat = EmptyDict
    /\ \E entry_ids \in {<<"c1">>, <<"c1", "c2">>} :
         batch = BatchStart(entry_ids, SampleProjects)

BatchPc(b) ==
    IF b.status = "running" THEN "batch"
    ELSE IF b.status = "raised" THEN "batch_raised" ELSE "batch_returned"

\* _call_claude raises RuntimeError or TimeoutExpired, or the response is no JSON
OracleFails ==
    /\ pc = "batch"
    /\ \E outcome \in Failures : batch' = BatchAttempt(batch, outcome)
    /\ pc' = BatchPc(batch')
    /\ UNCHANGED <<raw, trav, heap, conv, include_thoughts, result,
                 contentVars, resolverVars, scan, gen, cat>>

\* the response parses: the loop is left and the results are built and returned
OracleAnswers ==
    /\ pc = "batch"
    /\ \/ batch' = BatchAttempt(batch, Answer(<<>>))
       \/ \E n \in 0..MaxItems :
            \E items_ \in [1..n -> SampleItems] :
              batch' = BatchAttempt(batch, Answer(<<items_>>))
    /\ pc' = BatchPc(batch')
    /\ UNCHANGED <<raw, trav, heap, conv, include_thoughts, result,
                 contentVars, resolverVars, scan, gen, cat>>

NextBatch == OracleFails \/ OracleAnswers

SpecBatch == InitBatch /\ [][NextBatch]_vars

(***************************************************************************)
(* categorizer.py: categorize_entries.  cat holds the arguments and the    *)
(* locals of the call: the entries (their id, project and tags: the other  *)
(* fields go into the prompt only), force, batch_size, the batches of the  *)
(* pass under way and the position i in them, categorized, low_confidence, *)
(* still_uncertain and needs_review.  Three fields record the run without  *)
(* taking part in it: start is the entries as they were given, sent lists  *)
(* the calls of categorize_batch (the pass, the ids of the batch, whether  *)
(* every attempt failed), and counted[k] is the part of categorized that   *)
(* results for the k-th entry have added and the review taken back.  pc is *)
(* "categorize" at the call, "first_pass" and "second_pass" in the loops   *)
(* over the batches, "cat_done" at the return, "cat_raised" when an        *)
(* exception leaves the call.                                              *)
(***************************************************************************)
review_threshold == 80

\* entry_by_id.get(id): the position of the entry in entries, 0 for None; the
\* dict comprehension keeps the last entry of an id
EntryIndex(entries, id) ==
    LET S == {k \in 1..Len(entries) : entries[k].id = id} IN
    IF S = {} THEN 0 ELSE CHOOSE k \in S : \A j \in S : j <= k

\* the body of "for result in results" in either pass
ApplyResult(c, r) ==
    LET k == EntryIndex(c.entries, r.id) IN
    IF k = 0 THEN c
    ELSE LET assigned == [c EXCEPT !.entries[k].project = r.project,
                                   !.entries[k].tags = r.tags]
             counted  == [assigned EXCEPT !.categorized = @ + 1,
                                          !.counted[k] = @ + 1]
         IN
         IF r.project = "" THEN assigned
         ELSE IF r.confidence >= review_threshold THEN counted
         ELSE IF c.second
              THEN [counted EXCEPT !.still_uncertain = Append(@, r)]
              ELSE [counted EXCEPT !.low_confidence = Append(@, r)]

RECURSIVE ApplyResults(_, _)
ApplyResults(c, rs) ==
    IF rs = <<>> THEN c ELSE ApplyResults(ApplyResult(c, Head(rs)), Tail(rs))

\* [seq[i : i + batch_size] for i in range(0, len(seq), batch_size)]
RECURSIVE Batches(_, _)
Batches(seq, batch_size) ==
    IF seq = <<>> THEN <<>>
    ELSE <<SubSeq(seq, 1, Min(batch_size, Len(seq)))>>
         \o Batches(SubSeq(seq, Min(batch_size, Len(seq)) + 1, Len(seq)), batch_size)

\* for e in review_entries: e.project = ""; e.tags = []; categorized -= 1
RECURSIVE ClearReviewEntries(_, _)
ClearReviewEntries(c, ids) ==
    IF ids = <<>> THEN c
    ELSE LET k == EntryIndex(c.entries, Head(ids)) IN
         ClearReviewEntries([c EXCEPT !.entries[k].project = "",
                                      !.entries[k].tags = <<>>,
                                      !.categorized = @ - 1,
                                      !.counted[k] = @ - 1],
                            Tail(ids))

\* SortByConfidence, were the results kept in the order of the answers
SortByConfidence_Unsorted(rs) == rs

\* sorted(still_uncertain, key=lambda r: r.confidence): ascending and stable
RECURSIVE SortByConfidence(_)
SortByConfidence(rs) ==
    IF rs = <<>> THEN <<>>
    ELSE LET r    == rs[Len(rs)]
             rest == SortByConfidence(SubSeq(rs, 1, Len(rs) - 1))
             keep == SelectSeq(rest, LAMBDA x : x.confidence <= r.confidence)
             move == SelectSeq(rest, LAMBDA x : x.confidence > r.confidence)
         IN keep \o <<r>> \o move

EntryName == <<"c1", "c2", "c3">>

\* the entries of a manifest: n entries of distinct ids, those of named with a
\* project and a tag that the user gave them, the others not categorized yet
EntriesNamed(n, named) ==
    [k \in 1..n |-> [id      |-> EntryName[k],
                     project |-> IF k \in named THEN "p" ELSE "",
                     tags    |-> IF k \in named THEN <<"q">> ELSE <<>>]]

\* the items of an answer to a batch of entries: for each id, no project, or a
\* project with a confidence below or above the threshold, the confidences below
\* it being in descending order of the ids; and an item whose confidence is no
\* number
LowConfidence == <<70, 50, 60>>

CatItems ==
    { DictPart([id |-> EntryName[k]]) : k \in 1..MaxEntries }
    \cup UNION { { DictPart([id |-> EntryName[k], project |-> "p", tags |-> <<"q">>,
                             confidence |-> Number(n)]) :
                     n \in {LowConfidence[k], 90} } : k \in 1..MaxEntries }
    \cup { DictPart([id |-> "c1", project |-> "q", confidence |-> NotANumber]) }

\* an answer holds no item, one, or two: two items of one id, or one of each of two
AnswerLengths == 0..2

\* what the CLI does at the calls of one categorize_batch: it fails at each of
\* them, or it answers
Oracles ==
    { [k \in 1..(max_retries + 1) |-> f] : f \in Failures }
    \cup { <<Answer(<<answer>>)>> :
             answer \in UNION {[1..n -> CatItems] : n \in AnswerLengths} }

\* batch_size takes every entry in one batch, or leaves the last to a second batch
InitCategorize ==
    /\ raw = EmptyDict
    /\ pc = "categorize"
    /\ trav = TraverseStart(NoId)
    /\ heap = <<>>
    /\ conv = NoConv
    /\ include_thoughts = FALSE
    /\ result = <<>>
    /\ NoContent
    /\ NoResolver
    /\ scan = EmptyDict
    /\ gen = EmptyDict
    /\ batch = EmptyDict
    /\ \E n \in 1..MaxEntries :
         \E named \in SUBSET (1..n) :
           \E force \in BOOLEAN, batch_size \in {MaxEntries - 1, MaxEntries} :
             cat = [entries |-> EntriesNamed(n, named),
                    start |-> EntriesNamed(n, named), force |-> force,
                    batch_size |-> batch_size, second |-> FALSE,
                    batches |-> <<>>, i |-> 1, categorized |-> 0,
                    counted |-> [k \in 1..n |-> 0],
                    low_confidence |-> <<>>, still_uncertain |-> <<>>,
                    needs_review |-> <<>>, sent |-> <<>>]

\* the ids of the entries of a list, in order
EntryIds(entries) == [k \in 1..Len(entries) |-> entries[k].id]

\* ToCategorize, were every entry taken
ToCategorize_Every(entries, force) == entries

\* to_categorize = [e for e in entries if force or not e.project]
ToCategorize(entries, force) ==
    SelectSeq(entries, LAMBDA e : force \/ e.project = "")

\* lines 301-328: to_categorize, the early return, the project descriptions when
\* an entry has a project already (the call raises when the CLI fails or answers
\* no JSON), the batches
CategorizeStart ==
    /\ pc = "categorize"
    /\ LET to_categorize == ToCategorize(cat.entries, cat.force)
           already_categorized == SelectSeq(cat.entries, LAMBDA e : e.project # "")
       IN
       IF to_categorize = <<>>
       THEN pc' = "cat_done" /\ UNCHANGED cat
       ELSE \/ /\ pc' = "first_pass"
               /\ cat' = [cat EXCEPT
                            !.batches = Batches(EntryIds(to_categorize), cat.batch_size)]
            \/ /\ already_categorized # <<>>
               /\ pc' = "cat_raised"
               /\ UNCHANGED cat
    /\ UNCHANGED <<raw, trav, heap, conv, include_thoughts, result,
                 contentVars, resolverVars, scan, gen, batch>>

\* one pass through "for batch_idx, batch in enumerate(batches)" of either pass:
\* categorize_batch, then the loop over its results
CategorizeOneBatch(c, oracle) ==
    LET ids  == c.batches[c.i]
        b    == CategorizeBatch(ids, SampleProjects, oracle)
        sent == [c EXCEPT !.i = @ + 1,
                          !.sent = Append(@, [second |-> c.second, ids |-> ids,
                                              failed |-> b.parsed = 0])]
    IN [raised |-> b.status = "raised",
        c      |-> IF b.status = "raised" THEN sent ELSE ApplyResults(sent, b.results)]

FirstPassBatch ==
    /\ pc = "first_pass"
    /\ cat.i <= Len(cat.batches)
    /\ \E oracle \in Oracles :
         LET step == CategorizeOneBatch(cat, oracle) IN
         /\ cat' = step.c
         /\ pc' = IF step.raised THEN "cat_raised" ELSE "first_pass"
    /\ UNCHANGED <<raw, trav, heap, conv, include_thoughts, result,
                 contentVars, resolverVars, scan, gen, batch>>

\* lines 349-375 and 395-398: with no low-confidence result, the return; else the
\* project descriptions when an entry has a project, the review entries cleared,
\* the review batches
ReviewStart ==
    /\ pc = "first_pass"
    /\ cat.i > Len(cat.batches)
    /\ IF cat.low_confidence = <<>>
       THEN pc' = "cat_done" /\ cat' = [cat EXCEPT !.needs_review = <<>>]
       ELSE LET review_ids ==
                  SelectSeq(EntryIds(cat.low_confidence),
                            LAMBDA id : EntryIndex(cat.entries, id) # 0)
                all_categorized == SelectSeq(cat.entries, LAMBDA e : e.project # "")
            IN
            \/ /\ pc' = "second_pass"
               /\ cat' = [ClearReviewEntries(cat, review_ids) EXCEPT
                            !.second = TRUE, !.i = 1,
                            !.batches = Batches(review_ids, cat.batch_size)]
            \/ /\ all_categorized # <<>>
               /\ pc' = "cat_raised"
               /\ UNCHANGED cat
    /\ UNCHANGED <<raw, trav, heap, conv, include_thoughts, result,
                 contentVars, resolverVars, scan, gen, batch>>

SecondPassBatch ==
    /\ pc = "second_pass"
    /\ cat.i <= Len(cat.batches)
    /\ \E oracle \in Oracles :
         LET step == CategorizeOneBatch(cat, oracle) IN
         /\ cat' = step.c
         /\ pc' = IF step.raised THEN "cat_raised" ELSE "second_pass"
    /\ UNCHANGED <<raw, trav, heap, conv, include_thoughts, result,
                 contentVars, resolverVars, scan, gen, batch>>

\* needs_review = sorted(still_uncertain, ...); return CategorizeSummary(...)
CategorizeReturn ==
    /\ pc = "second_pass"
    /\ cat.i > Len(cat.batches)
    /\ cat' = [cat EXCEPT !.needs_review = SortByConfidence(cat.still_uncertain)]
    /\ pc' = "cat_done"
    /\ UNCHANGED <<raw, trav, heap, conv, include_thoughts, result,
                 contentVars, resolverVars, scan, gen, batch>>

NextCategorize ==
    \/ CategorizeStart
    \/ FirstPassBatch
    \/ ReviewStart
    \/ SecondPassBatch
    \/ CategorizeReturn

SpecCategorize == InitCategorize /\ [][NextCategorize]_vars

(***************************************************************************)
(* Properties.  What a property says about the record is read from raw     *)
(* itself and from the parent links, not from the loops that parse it.     *)
(***************************************************************************)
Parsed == pc \in {"parsed", "filtered"}

Mapping == Get(raw, "mapping", EmptyDict)

CurrentNode == Get(raw, "current_node", NoId)

\* the ids of the messages of a list of addresses, in order
IdsOf(h, addrs) == [i \in 1..Len(addrs) |-> h[addrs[i]].id]

MessageIds == Range(IdsOf(heap, conv.messages))

\* the parent of a node id, NoId when the node is missing or has none
ParentOf(id) ==
    IF id \in DOMAIN Mapping THEN Get(Mapping[id], "parent", NoId) ELSE NoId

\* the ids reachable from the ids of S by parent links, S included
RECURSIVE UpClosure(_)
UpClosure(S) ==
    LET T == S \cup ({ParentOf(id) : id \in S} \ {NoId}) IN
    IF T = S THEN S ELSE UpClosure(T)

\* the parent chain that starts at current_node
Chain == IF CurrentNode = NoId THEN {} ELSE UpClosure({CurrentNode})

\* x is reached from y by one parent link or more
IsAncestor(x, y) == ParentOf(y) # NoId /\ x \in UpClosure({ParentOf(y)})

\* the raw weight of a node is exactly 0.0
HasWeightZero(id) ==
    /\ "message" \in DOMAIN Mapping[id]
    /\ Get(Mapping[id]["message"], "weight", 1) = 0

\* the blocks the content of a node normalises to, whatever its weight
RawBlocks(id) ==
    IF id \in DOMAIN Mapping /\ "message" \in DOMAIN Mapping[id]
    THEN ParseContent(Get(Mapping[id]["message"], "content", EmptyDict))
    ELSE <<>>

\* C1: no node whose message has weight exactly 0.0 contributes a message: its id
\* is the id of no message of the parsed conversation.
C1_PrunedNeverMaterialized ==
    Parsed => \A id \in DOMAIN Mapping : HasWeightZero(id) => id \notin MessageIds

\* C1: a weight-0 node with blocks lies on the chain, below a node that is kept
C1_Witness ==
    /\ pc = "parsed"
    /\ conv.messages # <<>>
    /\ \E id \in Chain \cap DOMAIN Mapping :
         HasWeightZero(id) /\ RawBlocks(id) # <<>>

\* C2, as amended: the upward traversal ends, and the ids it records are at most
\* one more than the entries of the mapping (the one more is an id that is missing
\* from the mapping: the current_node, or the parent at which the walk stops).
C2_TerminatesWithinBound ==
    /\ [](Len(trav.path) <= Cardinality(DOMAIN Mapping) + 1)
    /\ <>(pc = "traversed")

\* C2, as stated: the ids the traversal records are at most the entries of the mapping.
C2_BoundedByMappingSize == Len(trav.path) <= Cardinality(DOMAIN Mapping)

\* C2: the walk has returned after going round a cycle of two nodes or more
C2_Witness ==
    /\ pc = "traversed"
    /\ Len(trav.path) >= 2
    /\ ParentOf(trav.path[1]) \in trav.visited

\* the decoded message of the i-th node of the path, NoMessage when it decodes to nothing
DecodedAt(path, i) == ParseMessage(Get(Mapping, path[i], EmptyDict))

\* some node before the i-th decodes to a message that is not system-role
NonSystemBefore(path, i) ==
    \E j \in 1..(i - 1) :
      DecodedAt(path, j) # NoMessage /\ DecodedAt(path, j).role # "system"

\* C3: a system-role message before the first retained message is absent, so the
\* first retained message is never system-role, and a system-role message decoded
\* after a message has been retained is kept.
C3_LeadingSystemDropped ==
    Parsed =>
      LET path == TraverseToRoot(Mapping, CurrentNode) IN
      /\ conv.messages # <<>> => heap[conv.messages[1]].role # "system"
      /\ \A i \in 1..Len(path) :
           (DecodedAt(path, i) # NoMessage /\ DecodedAt(path, i).role = "system")
             => (path[i] \in MessageIds <=> NonSystemBefore(path, i))

\* C3: a system-role message was kept behind a message retained before it
C3_Witness ==
    /\ pc = "parsed"
    /\ Len(conv.messages) = 2
    /\ heap[conv.messages[2]].role = "system"

\* the Text blocks of a block list, in order
TextBlocks(content) == SelectSeq(content, LAMBDA b : b.content_type = "text")

\* the addresses of the retained user-role messages, in order
UserMessages == SelectSeq(conv.messages, LAMBDA a : heap[a].role = "user")

\* C4: the preview comes from the first retained user-role message only: it is
\* the text of that message's first Text block, trimmed and cut to 200 characters
\* at most, and no later user message contributes to it.
C4_PreviewFromFirstUserMessage ==
    Parsed =>
      conv.first_user_message =
        IF UserMessages = <<>> THEN <<>>
        ELSE LET texts == TextBlocks(heap[UserMessages[1]].content) IN
             IF texts = <<>> THEN <<>>
             ELSE Take(Strip(texts[1].text), PreviewLen)

\* C5: every message comes from a node of the parent chain that starts at
\* current_node, a node off the chain contributes none, and the messages stand
\* in root-to-leaf order: the message of an ancestor before that of its descendant.
C5_ActivePathInOrder ==
    Parsed =>
      LET ids == IdsOf(heap, conv.messages) IN
      /\ \A i \in 1..Len(ids) : ids[i] \in Chain \cap DOMAIN Mapping
      /\ \A i, j \in 1..Len(ids) :
           i < j => (ids[i] # ids[j] /\ IsAncestor(ids[i], ids[j]))

\* C5: two nodes of the chain were kept, the root's message first
C5_Witness ==
    /\ pc = "parsed"
    /\ Len(conv.messages) = 2
    /\ ~IsAncestor(heap[conv.messages[2]].id, heap[conv.messages[1]].id)

\* C6: every Message of the parsed conversation and every Message that
\* visible_messages returns has a block; a node whose content normalises to no
\* block yields no message.
C6_EveryMessageHasABlock ==
    /\ Parsed =>
         /\ \A i \in 1..Len(conv.messages) : heap[conv.messages[i]].content # <<>>
         /\ \A id \in DOMAIN Mapping : RawBlocks(id) = <<>> => id \notin MessageIds
    /\ pc = "filtered" =>
         \A i \in 1..Len(result) : heap[result[i]].content # <<>>

\* C6: a node of the chain normalised to no block, and the filter dropped a
\* message that it would have emptied
C6_Witness ==
    /\ pc = "filtered"
    /\ Len(result) < Len(conv.messages)
    /\ \E id \in Chain \cap DOMAIN Mapping :
         /\ "message" \in DOMAIN Mapping[id]
         /\ ~HasWeightZero(id)
         /\ RawBlocks(id) = <<>>

(***************************************************************************)
(* Properties of visible_messages.  The input messages are those of        *)
(* conv.messages; their ids are distinct.                                  *)
(***************************************************************************)
Filtered == pc = "filtered"

IsThought(b) == b.content_type = "thoughts"

IsToolVisible(b) ==
    b.content_type \in {"execution_output", "tether_quote", "tether_browsing_display"}

\* the addresses of the result whose message has the id of the input message a
ResultsOf(a) == {i \in 1..Len(result) : heap[result[i]].id = heap[a].id}

\* C7: without thoughts, no message of the output holds a Thought block, and a
\* message all of whose blocks were Thought blocks is absent from the output.
C7_NoThoughtsWhenExcluded ==
    (Filtered /\ ~include_thoughts) =>
      /\ \A i \in 1..Len(result) :
           \A k \in 1..Len(heap[result[i]].content) :
             ~IsThought(heap[result[i]].content[k])
      /\ \A i \in 1..Len(conv.messages) :
           (\A k \in 1..Len(heap[conv.messages[i]].content) :
              IsThought(heap[conv.messages[i]].content[k]))
             => ResultsOf(conv.messages[i]) = {}

\* C7: a message that mixed Thought blocks with others was cut down, and a message
\* of Thought blocks only was dropped
C7_Witness ==
    /\ Filtered /\ ~include_thoughts
    /\ \E i \in 1..Len(conv.messages) :
         LET c == heap[conv.messages[i]].content IN
         /\ heap[conv.messages[i]].role # "tool"
         /\ \E k \in 1..Len(c) : IsThought(c[k])
         /\ \E k \in 1..Len(c) : ~IsThought(c[k])
    /\ \E i \in 1..Len(conv.messages) :
         LET c == heap[conv.messages[i]].content IN
         \A k \in 1..Len(c) : IsThought(c[k])

\* the Thought blocks of a block list, in order
ThoughtBlocks(content) == SelectSeq(content, IsThought)

\* C8, as amended: with thoughts included, every Thought block of every input
\* message whose role is not tool is still present, in its message, in the output;
\* a tool-role message loses its Thought blocks as it loses every block that is
\* not execution_output, tether_quote or tether_browsing_display.
C8_ThoughtsKeptOutsideTool ==
    (Filtered /\ include_thoughts) =>
      \A i \in 1..Len(conv.messages) :
        LET m == heap[conv.messages[i]] IN
        m.role # "tool" =>
          /\ Cardinality(ResultsOf(conv.messages[i])) = 1
          /\ \A r \in ResultsOf(conv.messages[i]) :
               ThoughtBlocks(heap[result[r]].content) = ThoughtBlocks(m.content)

\* C8, as stated: with thoughts included, every Thought block of every input
\* message is still present, in its message, in the output.
C8_ThoughtsKeptEverywhere ==
    (Filtered /\ include_thoughts) =>
      \A i \in 1..Len(conv.messages) :
        LET m == heap[conv.messages[i]] IN
        ThoughtBlocks(m.content) # <<>> =>
          \E r \in ResultsOf(conv.messages[i]) :
            ThoughtBlocks(heap[result[r]].content) = ThoughtBlocks(m.content)

\* C8: a message that is not tool-role went through the filter with two Thought blocks
C8_Witness ==
    /\ Filtered /\ include_thoughts
    /\ \E i \in 1..Len(conv.messages) :
         /\ heap[conv.messages[i]].role # "tool"
         /\ Len(ThoughtBlocks(heap[conv.messages[i]].content)) >= 2
         /\ ResultsOf(conv.messages[i]) # {}

\* the blocks of the three kinds a tool-role message keeps, in order
KeptOfTool(content) == SelectSeq(content, IsToolVisible)

C10_InputNotMutated ==
    [][(pc = "parsed" /\ pc' = "filtered") =>
         /\ conv' = conv
         /\ Len(heap') >= Len(heap)
         /\ \A a \in 1..Len(heap) : heap'[a] = heap[a]]_vars

\* C10: the filter returned a message whose block list is shorter than that of
\* the input message it comes from
C10_Witness ==
    /\ Filtered
    /\ \E i \in 1..Len(conv.messages) :
         \E r \in ResultsOf(conv.messages[i]) :
           Len(heap[result[r]].content) < Len(heap[conv.messages[i]].content)

\* the message at position r of the result comes from the input message at position i
ComesFrom(r, i) ==
    /\ heap[result[r]].id = heap[conv.messages[i]].id
    /\ heap[result[r]].role = heap[conv.messages[i]].role

\* C11: the messages that visible_messages returns are a subsequence of the input
\* messages: each comes from one input message with its id and role, none is
\* returned twice, and the retained messages stand in input order.
C11_OutputIsSubsequence ==
    Filtered =>
      /\ \A r \in 1..Len(result) :
           \E i \in 1..Len(conv.messages) : ComesFrom(r, i)
      /\ \A r1, r2 \in 1..Len(result) :
           r1 < r2 =>
             \E i1, i2 \in 1..Len(conv.messages) :
               i1 < i2 /\ ComesFrom(r1, i1) /\ ComesFrom(r2, i2)

\* C11: of three input messages one was dropped and two were returned
C11_Witness ==
    /\ Filtered
    /\ Len(conv.messages) = 3
    /\ Len(result) = 2

(***************************************************************************)
(* Properties of the content normaliser.  What a property says about the   *)
(* content is read from raw_content.                                       *)
(***************************************************************************)
Normalized == pc = "normalized"

ContentType == Get(raw_content, "content_type", "text")

\* C12: a tether_quote content always gives exactly one block, which carries the
\* text, the url and the domain of the content, also when the text is blank or
\* missing.
C12_TetherQuoteAlwaysOneBlock ==
    (Normalized /\ ContentType = "tether_quote") =>
      /\ Len(items) = 1
      /\ items[1].content_type = "tether_quote"
      /\ items[1].text = Get(raw_content, "text", <<>>)
      /\ items[1].url = Get(raw_content, "url", "")
      /\ items[1].domain = Get(raw_content, "domain", "")

\* C12: a quote with a url and a domain whose text is whitespace gave its block
C12_Witness ==
    /\ Normalized
    /\ ContentType = "tether_quote"
    /\ Get(raw_content, "text", <<"a">>) = <<" ">>
    /\ Get(raw_content, "url", "") = "u"
    /\ Get(raw_content, "domain", "") = "d"
    /\ Len(items) = 1

\* C13: a code content with non-blank text gives one block whose language is ""
\* when the raw language is "unknown" and the raw language otherwise; normalising
\* the language of the block again changes nothing.
C13_UnknownLanguageErased ==
    (/\ Normalized
     /\ ContentType = "code"
     /\ Strip(Get(raw_content, "text", <<>>)) # <<>>) =>
      /\ Len(items) = 1
      /\ items[1].language =
           IF Get(raw_content, "language", "") = "unknown" THEN ""
           ELSE Get(raw_content, "language", "")
      /\ NormalizeLanguage(items[1].language) = items[1].language

\* C13: a code content of language "unknown" gave a block of language ""
C13_Witness ==
    /\ Normalized
    /\ ContentType = "code"
    /\ Get(raw_content, "language", "") = "unknown"
    /\ Len(items) = 1
    /\ items[1].language = ""

\* C14: a tether_browsing_display content gives one block whose text is the
\* summary when the summary is non-blank and the result otherwise; it gives no
\* block only when both are blank once trimmed.
C14_BrowsingSummaryElseResult ==
    (Normalized /\ ContentType = "tether_browsing_display") =>
      LET summary == Get(raw_content, "summary", <<>>)
          res     == Get(raw_content, "result", <<>>) IN
      IF Strip(summary) # <<>>
      THEN items = <<TextContent("tether_browsing_display", summary)>>
      ELSE IF Strip(res) # <<>>
           THEN items = <<TextContent("tether_browsing_display", res)>>
           ELSE items = <<>>

\* the text of a content of unknown type, as the parts and the text field give it:
\* the joined string parts, and the text field when the join is empty
JoinedOrText ==
    LET joined == JoinLines(StrParts(Get(raw_content, "parts", <<>>))) IN
    IF joined # <<>> THEN joined ELSE Get(raw_content, "text", <<>>)

\* C15: a content of a type that is not recognised gives one block tagged with
\* the raw type whose text is the string parts joined by newlines, and the text
\* field when the join yields no text; it gives no block only when that text is
\* blank.
C15_UnknownTypeJoinsPartsElseText ==
    (Normalized /\ ContentType = UnknownType) =>
      IF Strip(JoinedOrText) # <<>>
      THEN items = <<TextContent(UnknownType, JoinedOrText)>>
      ELSE items = <<>>

\* a part of a multimodal_text content that the claim gives a block for
Contributes(part) ==
    \/ part.kind = "str" /\ Strip(part.s) # <<>>
    \/ part.kind = "dict"
         /\ Get(part.d, "content_type", "") = "image_asset_pointer"

ContributingParts == SelectSeq(Get(raw_content, "parts", <<>>), Contributes)

\* C16: the blocks of a multimodal_text content follow the order of its parts:
\* one text block for each non-blank string part, one image block with exactly one
\* image reference for each dict part of type image_asset_pointer, and nothing for
\* a blank string or a dict of another type.
C16_MultimodalFollowsParts ==
    (Normalized /\ ContentType = "multimodal_text") =>
      /\ Len(items) = Len(ContributingParts)
      /\ \A i \in 1..Len(ContributingParts) :
           IF ContributingParts[i].kind = "str"
           THEN /\ items[i].content_type = "text"
                /\ items[i].text = ContributingParts[i].s
                /\ items[i].images = <<>>
           ELSE /\ items[i].content_type = "image"
                /\ Len(items[i].images) = 1
                /\ items[i].images[1].asset_pointer =
                     Get(ContributingParts[i].d, "asset_pointer", <<>>)

\* C16: an image part, a blank string and a text part gave an image block and a
\* text block, in that order
C16_Witness ==
    /\ Normalized
    /\ ContentType = "multimodal_text"
    /\ Len(Get(raw_content, "parts", <<>>)) = 3
    /\ Len(items) = 2
    /\ items[1].content_type = "image"
    /\ items[2].content_type = "text"

(***************************************************************************)
(* Properties of the image resolver.  What a property says about the walk  *)
(* is read from files, and what it says about a pointer from pointer.      *)
(***************************************************************************)
Indexed == pc \in {"indexed", "resolved"}

\* the positions of the walk that hold an image file named file_... or file-...
IndexedPositions == {i \in 1..Len(files) : IsIndexed(files[i])}

\* the identifier the claim gives a name: the prefix and the characters up to the
\* first hyphen behind it, and the stem only when no hyphen is behind the prefix
ClaimedId(name) ==
    LET rest == Drop(name, 5) IN
    IF Find(rest, "-") # -1
    THEN Take(name, 5) \o Take(rest, Find(rest, "-"))
    ELSE Stem(name)

\* C17: an image file whose name starts with file_ or file- is indexed under the
\* prefix and the characters up to, not including, the first hyphen behind the
\* prefix, and under the stem of the name only when no hyphen is behind the
\* prefix: the index holds that key, with the path of the file unless a later
\* file has the same key.
C17_IndexedUpToFirstHyphen ==
    Indexed =>
      \A i \in IndexedPositions :
        /\ ClaimedId(files[i].name) \in DOMAIN index
        /\ (\A j \in IndexedPositions :
              j > i => ClaimedId(files[j].name) # ClaimedId(files[i].name))
             => index[ClaimedId(files[i].name)] = PathOf(files[i])

\* the positions of the walk that the code indexes under the key k
PositionsOf(k) == {i \in IndexedPositions : FileId(files[i].name) = <<k>>}

Last(S) == CHOOSE i \in S : \A j \in S : j <= i

\* C18: when several files of the walk get the same key, the construction goes
\* through and the key holds the file enumerated last among them; every key of
\* the index holds one path, that of a file of the walk with that key.
C18_LastEnumeratedWins ==
    Indexed =>
      /\ \A i \in IndexedPositions : FileId(files[i].name)[1] \in DOMAIN index
      /\ \A k \in DOMAIN index :
           /\ PositionsOf(k) # {}
           /\ index[k] = PathOf(files[Last(PositionsOf(k))])

\* C18: two files of the walk got the same key, and the key holds the second
C18_Witness ==
    /\ Indexed
    /\ Len(files) = 2
    /\ IndexedPositions = {1, 2}
    /\ FileId(files[1].name) = FileId(files[2].name)
    /\ index[FileId(files[2].name)[1]] = PathOf(files[2])

Remainder == Drop(pointer, Len(Sediment))

Segments == Split(Remainder, "#")

FileSegments == {i \in 1..Len(Segments) : IsFilePart(Segments[i])}

First(S) == CHOOSE i \in S : \A j \in S : i <= j

\* C19: resolve returns None when the pointer does not start with sediment://;
\* otherwise, when the remainder holds a '#', the index entry of the first of its
\* '#'-separated segments that starts with file_ or file-, None when there is no
\* such segment or no entry; and when the remainder holds no '#', the index entry
\* of the remainder, None when there is none.
C19_ResolveByPointerShape ==
    pc = "resolved" =>
      IF ~StartsWith(pointer, Sediment) THEN resolved = <<>>
      ELSE IF \E i \in 1..Len(Remainder) : Remainder[i] = "#"
           THEN IF FileSegments = {} THEN resolved = <<>>
                ELSE resolved = IndexGet(index, Segments[First(FileSegments)])
           ELSE resolved = IndexGet(index, Remainder)

\* C19: a pointer whose remainder holds a '#' was resolved to an indexed file by
\* a segment that is not its first
C19_Witness ==
    /\ pc = "resolved"
    /\ StartsWith(pointer, Sediment)
    /\ FileSegments # {}
    /\ First(FileSegments) > 1
    /\ resolved # <<>>

(***************************************************************************)
(* Properties of the render.                                               *)
(***************************************************************************)
\* the image references of the heap, as values
AllImages(h) ==
    UNION {Range(h[a].content[b].images) :
             <<a, b>> \in {t \in (1..Len(h)) \X (1..MaxBlocks + 1) :
                             t[2] <= Len(h[t[1]].content)}}

\* a message with the resolved_path of its image references left out
WithoutResolvedPath(msg) ==
    [msg EXCEPT !.content =
       [b \in 1..Len(msg.content) |->
          [msg.content[b] EXCEPT !.images =
             [i \in 1..Len(msg.content[b].images) |->
                [msg.content[b].images[i] EXCEPT !.resolved_path = <<>>]]]]]

UnsetAfterParse == pc = "parsed" => \A img \in AllImages(heap) : img.resolved_path = <<>>

\* C20, as the claim states it: resolved_path is unset when parsing finishes, and
\* each image reference of the conversation is written exactly once during a
\* render of the conversation.
C20_WrittenExactlyOnce ==
    /\ UnsetAfterParse
    /\ pc = "rendered" => \A p \in DOMAIN writes : writes[p] = 1

\* a step writes resolved_path only when the resolver is handed a reference, and
\* changes no other field of a message and no entry of the index
ResolveFrame ==
    /\ index' = index
    /\ \A a \in 1..Len(heap) :
         /\ WithoutResolvedPath(heap'[a]) = WithoutResolvedPath(heap[a])
         /\ heap'[a] # heap[a] => rendered' = rendered + 1

\* C20: resolved_path is unset when parsing finishes and is written at most once
\* during a render, by the resolver: once when the reference is in an image or
\* computer_output block of a message that visible_messages returns, and never
\* otherwise; resolving changes no other field of the reference and no entry of
\* the index.
C20_WrittenOnceWhenVisible ==
    /\ [](/\ UnsetAfterParse
          /\ \A p \in DOMAIN writes : writes[p] <= 1
          /\ pc = "rendered" =>
               \A p \in DOMAIN writes :
                 writes[p] = 1 <=> p \in Range(RenderTargets(heap, result)))
    /\ [][ResolveFrame]_vars

\* C20: after a render, one reference was written once, with the path of its
\* file, and another, in a block that was filtered out, was never written
C20_Witness ==
    /\ pc = "rendered"
    /\ \E p, q \in DOMAIN writes : writes[p] = 1 /\ writes[q] = 0
    /\ \E img \in AllImages(heap) : img.resolved_path # <<>>

(***************************************************************************)
(* Properties of the manifest merge.                                       *)
(***************************************************************************)
ExistingIds == {scan.existing[j].id : j \in 1..Len(scan.existing)}

\* the fields of an entry that a scan computes
ScanFields(e) ==
    [id |-> e.id, title |-> e.title, create_time |-> e.create_time,
     update_time |-> e.update_time, message_count |-> e.message_count,
     model |-> e.model, preview |-> e.preview]

\* what the step of merge_manifest does to the entries of the scan
MergeKeepsUserEdits ==
    (pc = "scan_parsed" /\ pc' = "merged") =>
      /\ Len(scan'.entries) = Len(scan.entries)
      /\ \A i \in 1..Len(scan.entries) :
           /\ ScanFields(scan'.entries[i]) = ScanFields(scan.entries[i])
           /\ IF scan.entries[i].id \in ExistingIds
              THEN \E j \in 1..Len(scan.existing) :
                     /\ scan.existing[j].id = scan.entries[i].id
                     /\ scan'.entries[i].project = scan.existing[j].project
                     /\ scan'.entries[i].tags = scan.existing[j].tags
                     /\ scan'.entries[i].include = scan.existing[j].include
              ELSE /\ scan'.entries[i].project = ""
                   /\ scan'.entries[i].tags = <<>>
                   /\ scan'.entries[i].include = TRUE
      /\ \A id \in ExistingIds :
           (\A i \in 1..Len(scan.entries) : scan.entries[i].id # id)
             => \A i \in 1..Len(scan'.entries) : scan'.entries[i].id # id

IncludedPositions ==
    {i \in 1..Len(gen.raw_convs) : RecordId(gen.raw_convs[i]) \in gen.included_ids}

\* C22: a failure while one included conversation is processed is caught at that
\* conversation and counted, and the loop goes on: the loop is never left by an
\* exception, and at its end generated + errors is the number of records whose id
\* is marked include, and no record that is not marked include was rendered.
C22_FailuresCaughtPerConversation ==
    /\ pc # "generate_aborted"
    /\ pc = "generated" =>
         /\ gen.generated + gen.errors = Cardinality(IncludedPositions)
         /\ Range(gen.rendered) \subseteq IncludedPositions

\* no id occurs twice in the path
NoRepeat(path) ==
    \A i, j \in 1..Len(path) : path[i] = path[j] => i = j

\* the path starts at current_node and each later id is the parent of the one before
LeafFirst(path) ==
    /\ path # <<>> => path[1] = CurrentNode
    /\ \A i \in 1..(Len(path) - 1) : path[i + 1] = ParentOf(path[i])

\* C24, as amended: the upward traversal records no empty id and no id twice; it
\* stops before recording a parent id that is empty or already visited, and right
\* after recording an id that is missing from the mapping, so that every recorded
\* id but the last recorded one is a key of the mapping; the recorded path goes
\* from current_node up the parent links, and the returned path is that path
\* reversed: it ends at current_node when current_node is not empty.
C24_StopsAtEmptyVisitedOrAfterMissing ==
    /\ NoId \notin Range(trav.path)
    /\ NoRepeat(trav.path)
    /\ pc = "traverse" =>
         /\ LeafFirst(trav.path)
         /\ \A i \in 1..(Len(trav.path) - 1) : trav.path[i] \in DOMAIN Mapping
         /\ trav.ended =>
              \/ trav.path = <<>> /\ CurrentNode = NoId
              \/ trav.path # <<>> /\ trav.path[Len(trav.path)] \notin DOMAIN Mapping
              \/ /\ trav.path # <<>>
                 /\ ParentOf(trav.path[Len(trav.path)]) \in Range(trav.path) \cup {NoId}
    /\ pc = "traversed" =>
         /\ LeafFirst(Reverse(trav.path))
         /\ \A i \in 2..Len(trav.path) : trav.path[i] \in DOMAIN Mapping
         /\ CurrentNode # NoId => trav.path[Len(trav.path)] = CurrentNode
         /\ CurrentNode = NoId => trav.path = <<>>

\* C24, as stated: every id of the returned path that was reached through a
\* parent link (every id but the last, current_node) is a key of the mapping.
C24_ParentLinkIdsAreKeys ==
    pc = "traversed" =>
      \A i \in 1..(Len(trav.path) - 1) : trav.path[i] \in DOMAIN Mapping

\* C24: the walk has returned after stopping at a parent that the mapping lacks
C24_Witness ==
    /\ pc = "traversed"
    /\ Len(trav.path) >= 2
    /\ trav.path[1] \notin DOMAIN Mapping
    /\ trav.path[2] \in DOMAIN Mapping

\* C29: for every mapping and current_node the node path that
\* extract_conversation_snippets walks is the path that _traverse_to_root
\* returns, also when the parent chain is cyclic, when a parent is missing from
\* the mapping and when current_node is missing from the mapping.
C29_SnippetPathIsParserPath ==
    pc = "snippet_walked" => trav.path = TraverseToRoot(Mapping, CurrentNode)

\* C29: the snippet walk has returned a path of two ids or more that starts at a
\* parent the mapping lacks or at a node whose parent closes a cycle
C29_Witness ==
    /\ pc = "snippet_walked"
    /\ Len(trav.path) >= 2
    /\ \/ trav.path[1] \notin DOMAIN Mapping
       \/ ParentOf(trav.path[1]) \in Range(trav.path)

(***************************************************************************)
(* Properties of categorize_batch.                                         *)
(***************************************************************************)
\* every attempt of the call has failed and the call has ended
EveryAttemptFailed == batch.status # "running" /\ batch.parsed = 0

\* C25: categorize_batch calls the oracle at most max_retries + 1 times, 3 by
\* default; it makes no call after the first call whose response parses; and when
\* every attempt fails with a CLI error, a timeout or a JSON decode error it
\* returns the empty list, after max_retries + 1 calls, and does not raise.
C25_BoundedRetriesNoRaise ==
    /\ [](/\ batch.calls <= max_retries + 1
          /\ max_retries + 1 = 3
          /\ batch.parsed <= 1
          /\ batch.parsed = 1 => batch.status # "running"
          /\ EveryAttemptFailed =>
               /\ batch.status = "returned"
               /\ batch.results = <<>>
               /\ batch.calls = max_retries + 1)
    /\ [][batch.parsed = 1 => batch'.calls = batch.calls]_vars

\* C25: the call has returned after three attempts that failed
C25_Witness ==
    /\ pc = "batch_returned"
    /\ batch.parsed = 0
    /\ batch.calls = 3

\* C26: every CategoryResult that categorize_batch returns, whatever the oracle
\* answers, has an id of the batch, a project that is empty or an allowed project
\* name, tags that are allowed project names and all differ from the project of
\* the result, and a confidence within 0..100.
C26_ResultsAreValidated ==
    batch.status = "returned" =>
      \A i \in 1..Len(batch.results) :
        LET r == batch.results[i] IN
        /\ r.id \in Range(batch.entries)
        /\ r.project \in {""} \cup batch.project_set
        /\ \A k \in 1..Len(r.tags) :
             r.tags[k] \in batch.project_set /\ r.tags[k] # r.project
        /\ r.confidence \in 0..100

\* C26: an answer was returned that held an item of an id outside the batch and
\* an item of the batch with a project that is not allowed, a tag that is not
\* allowed and a confidence above 100
C26_Witness ==
    /\ pc = "batch_returned"
    /\ batch.raw # <<>>
    /\ Len(batch.results) = 1
    /\ Len(batch.raw[1]) = 2
    /\ \E i \in 1..2 :
         LET item == batch.raw[1][i] IN
         /\ item.kind = "dict"
         /\ Get(item.d, "id", NoId) = "c1"
         /\ Get(item.d, "project", "") = "bad"
         /\ Get(item.d, "tags", <<>>) # <<>>
         /\ Get(item.d, "confidence", Number(100)) = Number(101)

(***************************************************************************)
(* Properties of categorize_entries.  The entries have distinct ids.       *)
(***************************************************************************)
\* the ids that a list of results or of entries names
IdsIn(rs) == {rs[k].id : k \in 1..Len(rs)}

\* the ids sent to the oracle in a categorization batch of either pass
SentIds == UNION {Range(cat.sent[k].ids) : k \in 1..Len(cat.sent)}

\* C23: when categorize_entries runs with force=False, an entry whose project is
\* not empty at the start is in no categorization batch sent to the oracle, and
\* its project and tags are, at the return and all along, those of the start,
\* whatever the oracle answers.
C23_CategorizedEntriesUntouched ==
    ~cat.force =>
      \A k \in 1..Len(cat.start) :
        cat.start[k].project # "" =>
          /\ cat.start[k].id \notin SentIds
          /\ cat.entries[k].project = cat.start[k].project
          /\ cat.entries[k].tags = cat.start[k].tags

\* C23: the call has returned, without force, having given a project to the
\* second entry while the first had one at the start
C23_Witness ==
    /\ pc = "cat_done"
    /\ ~cat.force
    /\ Len(cat.start) = 2
    /\ cat.start[1].project # ""
    /\ cat.start[2].project = ""
    /\ cat.entries[2].project # ""

\* the ids of the second-pass batches whose call of the oracle parsed
AnsweredInReview ==
    UNION {Range(cat.sent[k].ids) :
             k \in {j \in 1..Len(cat.sent) : cat.sent[j].second /\ ~cat.sent[j].failed}}

\* C27: needs_review holds only results of the second pass, with a project and a
\* confidence below review_threshold, in order of non-decreasing confidence; it
\* names no entry that the first pass did not flag as low-confidence, and it is
\* empty when the first pass flags nothing.
C27_NeedsReviewFromSecondPass ==
    /\ pc # "cat_done" => cat.needs_review = <<>>
    /\ Range(cat.needs_review) \subseteq Range(cat.still_uncertain)
    /\ \A k \in 1..Len(cat.still_uncertain) :
         /\ cat.still_uncertain[k].id \in AnsweredInReview
         /\ cat.still_uncertain[k].id \in IdsIn(cat.low_confidence)
    /\ \A k \in 1..Len(cat.needs_review) :
         /\ cat.needs_review[k].project # ""
         /\ cat.needs_review[k].confidence < review_threshold
         /\ cat.needs_review[k].id \in IdsIn(cat.low_confidence)
    /\ \A j, k \in 1..Len(cat.needs_review) :
         j <= k => cat.needs_review[j].confidence <= cat.needs_review[k].confidence
    /\ cat.low_confidence = <<>> => cat.needs_review = <<>>

\* C27: the call has returned two results to review that the second pass got in
\* descending order of confidence
C27_Witness ==
    /\ pc = "cat_done"
    /\ Len(cat.needs_review) = 2
    /\ cat.still_uncertain[1].confidence > cat.still_uncertain[2].confidence

\* every second-pass batch that held the id was sent, and failed on every retry
ReviewFailed(id) ==
    /\ \E k \in 1..Len(cat.sent) : cat.sent[k].second /\ id \in Range(cat.sent[k].ids)
    /\ \A k \in 1..Len(cat.sent) :
         (cat.sent[k].second /\ id \in Range(cat.sent[k].ids)) => cat.sent[k].failed

\* C28: every entry that the first pass assigned a project with a confidence
\* below review_threshold has an empty project and no tags when the second pass
\* starts; and if the second-pass batch that holds it fails on every retry, the
\* entry has an empty project and no tags at the return, is not counted in
\* categorized, and is absent from needs_review.
C28_FailedReviewLeavesEntryCleared ==
    \A k \in 1..Len(cat.entries) :
      cat.entries[k].id \in IdsIn(cat.low_confidence) =>
        /\ (pc = "second_pass" /\ cat.i = 1) =>
             cat.entries[k].project = "" /\ cat.entries[k].tags = <<>>
        /\ (pc = "cat_done" /\ ReviewFailed(cat.entries[k].id)) =>
             /\ cat.entries[k].project = ""
             /\ cat.entries[k].tags = <<>>
             /\ cat.counted[k] = 0
             /\ cat.entries[k].id \notin IdsIn(cat.needs_review)

====
